---- MODULE Spec2Model ----
(***************************************************************************)
(* Tomorrow's Money REST API: users, goals, categories, tags and            *)
(* transactions behind authenticate and the controllers' buildUserFilter.   *)
(* Money columns are DECIMAL(10,2); the model keeps them in cents.          *)
(***************************************************************************)
EXTENDS Integers, Sequences, FiniteSets, TLC

VARIABLES users, categories, tags, goals, transactions, logs, inflight, resp

vars == <<users, categories, tags, goals, transactions, logs, inflight, resp>>

(***************************************************************************)
(* Bounds of the model.                                                     *)
(***************************************************************************)
MaxGoals == 1
MaxCurrent == 13
MaxCategories == 1
MaxTags == 2
MaxTransactions == 1

(***************************************************************************)
(* User types (users.type) and the null id.                                 *)
(***************************************************************************)
REGULAR == 0
ADMIN == 1
VIEWER == 2
NoId == 0

Truthy(v) == v # NoId

\* JavaScript's a || b on ids
OrElse(a, b) == IF Truthy(a) THEN a ELSE b

Has(body, f) == f \in DOMAIN body

\* a numeric or id body field that is present and truthy
GivenNum(body, f) == Has(body, f) /\ body[f] # 0

\* a string body field that is present and non-empty
GivenStr(body, f) == Has(body, f) /\ body[f] # <<>>

\* strings are sequences of characters; String.prototype.trim
RECURSIVE TrimLeft(_)
TrimLeft(s) == IF s # <<>> /\ Head(s) = " " THEN TrimLeft(Tail(s)) ELSE s

RECURSIVE TrimRight(_)
TrimRight(s) ==
    IF s # <<>> /\ s[Len(s)] = " " THEN TrimRight(SubSeq(s, 1, Len(s) - 1)) ELSE s

Trim(s) == TrimRight(TrimLeft(s))

\* String.prototype.toLowerCase on the alphabet the requests use
LowerChar(ch) ==
    CASE ch = "A" -> "a" [] ch = "B" -> "b" [] ch = "K" -> "k" [] ch = "P" -> "p"
      [] OTHER -> ch

ToLowerCase(s) == [i \in 1..Len(s) |-> LowerChar(s[i])]

\* name ILIKE '%term%'
ILike(name, term) ==
    \E i \in 1..(Len(name) - Len(term) + 1) :
        ToLowerCase(SubSeq(name, i, i + Len(term) - 1)) = ToLowerCase(term)

(***************************************************************************)
(* Seeded accounts: an admin, two regular users and a viewer delegated to   *)
(* user 2, as POST /auth/register leaves them.                              *)
(***************************************************************************)
UserIds == 1..4

\* bcrypt.hash: a digest that differs from the clear text
Hash(password) == <<"$">> \o password

\* the address <local>@x.y
Email(local) == <<local, "@", "x", ".", "y">>

NewUser(type, viewable, local) ==
    [st |-> "live", type |-> type, viewable_user_id |-> viewable, name |-> <<local>>,
     email |-> Email(local), password |-> Hash(<<"s", "e", "c", "r", "e", "t">>),
     active |-> TRUE]

SeedUsers ==
    [u \in UserIds |->
        CASE u = 1 -> NewUser(ADMIN, NoId, "r")
          [] u = 2 -> NewUser(REGULAR, NoId, "a")
          [] u = 3 -> NewUser(REGULAR, NoId, "b")
          [] OTHER -> NewUser(VIEWER, 2, "v")]

LiveUser(u) == u \in DOMAIN users /\ users[u].st = "live"

\* req.user as it would be with the user's viewable_user_id attached
AuthenticateFull(u) ==
    [id |-> u, type |-> users[u].type, viewable_user_id |-> users[u].viewable_user_id]

\* authenticate: req.user carries id and type only, so viewable_user_id is undefined
Authenticate(u) == [id |-> u, type |-> users[u].type, viewable_user_id |-> NoId]

\* the scope the viewer documentation promises: own id, or the delegated user
EffectiveScope(u) ==
    IF users[u].type = VIEWER THEN OrElse(users[u].viewable_user_id, u) ELSE u

(***************************************************************************)
(* IEEE-754 binary64, as parseFloat and + use it.  A positive double is     *)
(* [e, m] with m the 53 significand bits, most significant first, and       *)
(* value 0.m * 2^e; zero has an empty significand.                          *)
(***************************************************************************)
MantBits == 53

RECURSIVE ScaleDown(_, _, _)
ScaleDown(num, den, e) ==
    IF num >= den THEN ScaleDown(num, 2 * den, e + 1) ELSE <<num, den, e>>

RECURSIVE ScaleUp(_, _, _)
ScaleUp(num, den, e) ==
    IF 2 * num < den THEN ScaleUp(2 * num, den, e - 1) ELSE <<num, den, e>>

RECURSIVE PowMod(_, _)
PowMod(i, den) ==
    IF i = 0 THEN 1 % den
    ELSE LET h == PowMod(i \div 2, den)
         IN  (((h * h) % den) * (IF i % 2 = 1 THEN 2 ELSE 1)) % den

\* remainder of num * 2^i modulo den: the binary expansion of num/den after i bits
Rem(num, den, i) == (num * PowMod(i, den)) % den

IncBits(bits) ==
    LET zs == {i \in 1..Len(bits) : bits[i] = 0}
    IN  IF zs = {} THEN <<1>> \o [i \in 1..Len(bits) |-> 0]
        ELSE LET k == CHOOSE i \in zs : \A j \in zs : j <= i
             IN  [i \in 1..Len(bits) |->
                    IF i < k THEN bits[i] ELSE IF i = k THEN 1 ELSE 0]

\* round to nearest, ties to even
RoundBits(head, guard, sticky, e) ==
    IF guard = 1 /\ (sticky \/ head[MantBits] = 1)
    THEN LET inc == IncBits(head)
         IN  IF Len(inc) > MantBits
             THEN [e |-> e + 1, m |-> SubSeq(inc, 1, MantBits)]
             ELSE [e |-> e, m |-> inc]
    ELSE [e |-> e, m |-> head]

FZero == [e |-> 0, m |-> <<>>]

\* parseFloat of the decimal cents/100 (a DECIMAL string or a JSON number)
ParseFloat(cents) ==
    IF cents = 0 THEN FZero
    ELSE LET s1 == ScaleDown(cents, 100, 0)
             s2 == ScaleUp(s1[1], s1[2], s1[3])
             num == s2[1]
             den == s2[2]
             head == [i \in 1..MantBits |->
                        IF 2 * Rem(num, den, i - 1) >= den THEN 1 ELSE 0]
             r2 == 2 * Rem(num, den, MantBits)
             guard == IF r2 >= den THEN 1 ELSE 0
             sticky == (r2 - guard * den) > 0
         IN  RoundBits(head, guard, sticky, s2[3])

\* carry into bit i of a + b
Carry(a, b, i) ==
    \E j \in (i + 1)..Len(a) :
        /\ a[j] = 1 /\ b[j] = 1
        /\ \A k \in (i + 1)..(j - 1) : a[k] + b[k] = 1

AddBits(a, b) ==
    LET c(i) == IF Carry(a, b, i) THEN 1 ELSE 0
        low  == [i \in 1..Len(a) |-> (a[i] + b[i] + c(i)) % 2]
    IN  IF Carry(a, b, 0) THEN <<1>> \o low ELSE low

Zeros(n) == [i \in 1..n |-> 0]

FloatAdd(x, y) ==
    IF x.m = <<>> THEN y
    ELSE IF y.m = <<>> THEN x
    ELSE LET hi == IF x.e >= y.e THEN x ELSE y
             lo == IF x.e >= y.e THEN y ELSE x
             d  == hi.e - lo.e
             s  == AddBits(hi.m \o Zeros(d), Zeros(d) \o lo.m)
             n  == Len(s)
             e  == IF n > MantBits + d THEN hi.e + 1 ELSE hi.e
             guard == IF n > MantBits THEN s[MantBits + 1] ELSE 0
             sticky == \E i \in (MantBits + 2)..n : s[i] = 1
         IN  RoundBits(SubSeq(s, 1, MantBits), guard, sticky, e)

FloatLess(x, y) ==
    IF y.m = <<>> THEN FALSE
    ELSE IF x.m = <<>> THEN TRUE
    ELSE IF x.e # y.e THEN x.e < y.e
    ELSE \E i \in 1..MantBits :
            /\ x.m[i] < y.m[i]
            /\ \A j \in 1..(i - 1) : x.m[j] = y.m[j]

FloatGeq(x, y) == ~FloatLess(x, y)

\* borrow into bit i of a - b
Borrow(a, b, i) ==
    \E j \in (i + 1)..Len(a) :
        /\ a[j] = 0 /\ b[j] = 1
        /\ \A k \in (i + 1)..(j - 1) : a[k] = b[k]

SubBits(a, b) ==
    [i \in 1..Len(a) |-> (a[i] + b[i] + (IF Borrow(a, b, i) THEN 1 ELSE 0)) % 2]

\* x - y for doubles x > y >= 0: the exact difference, normalised and rounded
FloatDiff(x, y) ==
    IF y.m = <<>> THEN x
    ELSE LET d == x.e - y.e
             s == SubBits(x.m \o Zeros(d), Zeros(d) \o y.m)
             lead == CHOOSE i \in 1..Len(s) : s[i] = 1 /\ \A j \in 1..(i - 1) : s[j] = 0
             bits == SubSeq(s, lead, Len(s)) \o Zeros(MantBits)
             n == Len(s) - lead + 1
             guard == bits[MantBits + 1]
             sticky == \E i \in (MantBits + 2)..n : bits[i] = 1
         IN  RoundBits(SubSeq(bits, 1, MantBits), guard, sticky, x.e - (lead - 1))

\* x - y for non-negative doubles: the sign and the magnitude of the result
FloatSub(x, y) ==
    IF x = y THEN [neg |-> FALSE, abs |-> FZero]
    ELSE IF FloatLess(x, y) THEN [neg |-> TRUE, abs |-> FloatDiff(y, x)]
    ELSE [neg |-> FALSE, abs |-> FloatDiff(x, y)]

\* the doubles of the stored and requested amounts
Double == [c \in 0..(2 * MaxCurrent) |-> ParseFloat(c)]

(***************************************************************************)
(* Rows.  A table maps each id to a row; st is "unused" for an id never     *)
(* given out, "live", or "deleted" (ids are never reused).                  *)
(***************************************************************************)
GoalIds == 1..MaxGoals
CategoryIds == 1..MaxCategories
TagIds == 1..MaxTags
TransactionIds == 1..MaxTransactions

BlankGoal(st) ==
    [st |-> st, user_id |-> NoId, name |-> <<>>, target_amount |-> 0,
     current_amount |-> 0, is_completed |-> FALSE, category_id |-> NoId]

BlankCategory(st) == [st |-> st, user_id |-> NoId, name |-> <<>>]

BlankTag(st) == [st |-> st, user_id |-> NoId, name |-> <<>>]

\* new Date().toISOString().split("T")[0]: the day of the request, in days
Today == 2

BlankTransaction(st) ==
    [st |-> st, user_id |-> NoId, category_id |-> NoId, amount |-> 0,
     type |-> <<"expense">>, date |-> Today, tags |-> {}]

Live(table, id) == id \in DOMAIN table /\ table[id].st = "live"

LiveIds(table) == {id \in DOMAIN table : table[id].st = "live"}

Unused(table) == {id \in DOMAIN table : table[id].st = "unused"}

\* autoIncrement: the smallest id never given out
NextId(table) == CHOOSE id \in Unused(table) : \A j \in Unused(table) : id <= j

\* instance.update(data): the attributes of the row that data names
UpdateRow(row, data) ==
    [f \in DOMAIN row |-> IF f \in DOMAIN data /\ f # "st" THEN data[f] ELSE row[f]]

Without(body, fields) == [f \in (DOMAIN body) \ fields |-> body[f]]

View(kind, table, id) == [kind |-> kind, id |-> id, user_id |-> table[id].user_id]

NoData == [none |-> TRUE]

Response(op, caller, target, status, rows, data, req) ==
    [op |-> op, caller |-> caller, target |-> target, status |-> status,
     rows |-> rows, data |-> data, req |-> req]

(***************************************************************************)
(* GoalController                                                           *)
(***************************************************************************)
\* buildUserFilter: the owner condition put on a goal query
GoalBuildUserFilter(user, id) ==
    IF user.type = REGULAR THEN goals[id].user_id = user.id ELSE TRUE

\* Goal.findOne({ where: buildUserFilter(req, { id }) })
GoalFindOne(user, id) == Live(goals, id) /\ GoalBuildUserFilter(user, id)

\* the model's validators: target_amount min 0.01, current_amount min 0, name notEmpty
GoalValid(row) ==
    row.target_amount >= 1 /\ row.current_amount >= 0 /\ row.name # <<>>

\* Math.round(x / y * 100) on cents (the quotient of two doubles rounds the same way
\* on the modelled range)
RoundPercent(x, y) == (200 * x + y) \div (2 * y)

Min(a, b) == IF a <= b THEN a ELSE b

Max(a, b) == IF a >= b THEN a ELSE b

AddCalculatedFields(id) ==
    LET g == goals[id]
    IN  [id |-> id, user_id |-> g.user_id, name |-> g.name,
         target_amount |-> g.target_amount, current_amount |-> g.current_amount,
         is_completed |-> g.is_completed,
         progress_percentage |->
            IF g.target_amount > 0
            THEN Min(100, RoundPercent(g.current_amount, g.target_amount))
            ELSE 0,
         remaining_amount |-> Max(0, g.target_amount - g.current_amount)]

GoalFrame == UNCHANGED <<users, categories, tags, transactions, logs, inflight>>

Reply(r) == resp' = r

GoalCreateData(body, target_user_id) ==
    [st |-> "live", user_id |-> target_user_id, name |-> Trim(body.name),
     target_amount |-> body.target_amount,
     current_amount |-> IF Has(body, "current_amount") THEN body.current_amount ELSE 0,
     is_completed |-> FALSE,
     category_id |-> IF GivenNum(body, "category_id") THEN body.category_id ELSE NoId]

\* create: the answer and the goals it leaves
GoalCreateResult(c, body) ==
    LET user == Authenticate(c)
        target_user_id ==
            IF user.type = ADMIN /\ GivenNum(body, "target_user_id")
            THEN body.target_user_id ELSE user.id
        row == GoalCreateData(body, target_user_id)
        id == IF Unused(goals) = {} THEN NoId ELSE NextId(goals)
        Fail(status) ==
            [resp |-> Response("goalCreate", c, NoId, status, {}, NoData, body),
             goals |-> goals]
    IN  IF user.type = VIEWER THEN Fail(403)
        ELSE IF ~GivenStr(body, "name") \/ ~GivenNum(body, "target_amount")
        THEN Fail(400)
        ELSE IF ~LiveUser(target_user_id) THEN Fail(404)
        ELSE IF /\ GivenNum(body, "category_id")
                /\ ~(/\ Live(categories, body.category_id)
                     /\ (user.type = REGULAR =>
                            categories[body.category_id].user_id = user.id))
        THEN Fail(404)
        ELSE IF \E g \in LiveIds(goals) :
                   goals[g].name = Trim(body.name) /\ goals[g].user_id = target_user_id
        THEN Fail(400)
        ELSE IF ~GoalValid(row) THEN Fail(500)
        ELSE [resp |-> Response("goalCreate", c, id, 201,
                                {[kind |-> "goal", id |-> id, user_id |-> row.user_id]},
                                NoData, body),
              goals |-> IF id = NoId THEN goals ELSE [goals EXCEPT ![id] = row]]

\* a created goal needs a free id and an amount within the bound
GoalCreateFits(c, body) ==
    GoalCreateResult(c, body).resp.status = 201
        => /\ Unused(goals) # {}
           /\ GoalCreateResult(c, body).goals[NextId(goals)].current_amount <= MaxCurrent

GoalCreate(c, body) ==
    /\ GoalFrame
    /\ GoalCreateFits(c, body)
    /\ goals' = GoalCreateResult(c, body).goals
    /\ Reply(GoalCreateResult(c, body).resp)

\* the parsed update data: user_id and target_user_id are dropped, name is trimmed,
\* and a current_amount at or above the stored target completes the goal
GoalUpdateData(existing, body) ==
    LET data == Without(body, {"target_user_id", "user_id"})
        named == IF GivenStr(data, "name")
                 THEN [data EXCEPT !.name = Trim(data.name)] ELSE data
    IN  IF /\ Has(named, "current_amount")
           /\ named.current_amount >= 0
           /\ FloatGeq(Double[named.current_amount], Double[existing.target_amount])
        THEN [f \in (DOMAIN named) \cup {"is_completed"} |->
                 IF f = "is_completed" THEN TRUE ELSE named[f]]
        ELSE named

GoalUpdate(c, id, body) ==
    LET user == Authenticate(c)
        existing == goals[id]
        row == UpdateRow(existing, GoalUpdateData(existing, body))
        Fail(status) ==
            /\ Reply(Response("goalUpdate", c, id, status, {}, NoData, body))
            /\ UNCHANGED goals
    IN  /\ GoalFrame
        /\ IF ~GoalFindOne(user, id) THEN Fail(404)
           ELSE IF /\ GivenNum(body, "category_id")
                   /\ ~(/\ Live(categories, body.category_id)
                        /\ (user.type = REGULAR =>
                               categories[body.category_id].user_id = user.id))
           THEN Fail(404)
           ELSE IF /\ GivenStr(body, "name")
                   /\ Trim(body.name) # existing.name
                   /\ \E g \in LiveIds(goals) \ {id} :
                         /\ goals[g].name = Trim(body.name)
                         /\ goals[g].user_id = existing.user_id
           THEN Fail(400)
           ELSE IF ~GoalValid(row) THEN Fail(500)
           ELSE /\ row.current_amount <= MaxCurrent
                /\ goals' = [goals EXCEPT ![id] = row]
                /\ Reply(Response("goalUpdate", c, id, 200,
                                  {View("goal", goals', id)}, NoData, body))

GoalDelete(c, id) ==
    LET user == Authenticate(c)
    IN  /\ GoalFrame
        /\ IF ~GoalFindOne(user, id)
           THEN /\ Reply(Response("goalDelete", c, id, 404, {}, NoData, <<>>))
                /\ UNCHANGED goals
           ELSE /\ goals' = [goals EXCEPT ![id] = BlankGoal("deleted")]
                /\ Reply(Response("goalDelete", c, id, 204,
                                  {View("goal", goals, id)}, NoData, <<>>))

\* newCurrentAmount >= goal.target_amount, on the doubles the code compares
TargetReached(current, amount, target) ==
    FloatGeq(FloatAdd(Double[current], Double[amount]), Double[target])

\* the DECIMAL(10,2) column rounds the double sum to the cent
NewCurrentAmount(current, amount) == current + amount

\* an amount check that lets zero through
InvalidAmountLax(body) == ~Has(body, "amount") \/ body.amount < 0

\* !amount || amount <= 0
InvalidAmount(body) == ~GivenNum(body, "amount") \/ body.amount <= 0

\* addProgress without the refusal of completed goals
NeverCompleted(goal) == FALSE

\* if (goal.is_completed): progress on a completed goal is refused
AlreadyCompleted(goal) == goal.is_completed

GoalAddProgress(c, id, body) ==
    LET user == Authenticate(c)
        goal == goals[id]
        reached == TargetReached(goal.current_amount, body.amount, goal.target_amount)
        Fail(status) ==
            /\ Reply(Response("goalAddProgress", c, id, status, {}, NoData, body))
            /\ UNCHANGED goals
    IN  /\ GoalFrame
        /\ IF InvalidAmount(body) THEN Fail(400)
           ELSE IF ~GoalFindOne(user, id) THEN Fail(404)
           ELSE IF AlreadyCompleted(goal) THEN Fail(400)
           ELSE /\ NewCurrentAmount(goal.current_amount, body.amount) <= MaxCurrent
                /\ goals' = [goals EXCEPT ![id] =
                               [goal EXCEPT
                                  !.current_amount =
                                      NewCurrentAmount(goal.current_amount, body.amount),
                                  !.is_completed = reached]]
                /\ Reply(Response("goalAddProgress", c, id, 200,
                                  {View("goal", goals', id)},
                                  [before |-> goal, completed |-> reached,
                                   progress_added |-> body.amount],
                                  body))

GoalGetById(c, id) ==
    LET user == Authenticate(c)
    IN  /\ GoalFrame
        /\ UNCHANGED goals
        /\ IF ~GoalFindOne(user, id)
           THEN Reply(Response("goalGetById", c, id, 404, {}, NoData, <<>>))
           ELSE Reply(Response("goalGetById", c, id, 200, {View("goal", goals, id)},
                               AddCalculatedFields(id), <<>>))

\* a DECIMAL(10,2) column as the store returns it: the string of the amount
Digit(d) == <<"0", "1", "2", "3", "4", "5", "6", "7", "8", "9">>[d + 1]

RECURSIVE DigitsOf(_)
DigitsOf(n) == IF n < 10 THEN <<Digit(n)>> ELSE Append(DigitsOf(n \div 10), Digit(n % 10))

DecimalString(cents) ==
    DigitsOf(cents \div 100) \o <<".", Digit((cents % 100) \div 10), Digit(cents % 10)>>

\* the UTF-16 code unit of a character of a decimal string
CodeUnit(ch) ==
    IF ch = "." THEN 46
    ELSE 48 + (CHOOSE d \in 0..9 : Digit(d) = ch)

\* a >= b on two strings: the comparison of their code units, position by position
RECURSIVE StringGeq(_, _)
StringGeq(a, b) ==
    IF b = <<>> THEN TRUE
    ELSE IF a = <<>> THEN FALSE
    ELSE IF Head(a) # Head(b) THEN CodeUnit(Head(a)) > CodeUnit(Head(b))
    ELSE StringGeq(Tail(a), Tail(b))

\* x * 2^k
Shift(x, k) == IF x.m = <<>> THEN x ELSE [x EXCEPT !.e = @ + k]

\* target_amount * 0.25, * 0.5 and * 0.75 on the number the string converts to
TimesFraction(cents, percentage) ==
    LET x == ParseFloat(cents)
    IN  CASE percentage = 25 -> Shift(x, 0 - 2)
          [] percentage = 50 -> Shift(x, 0 - 1)
          [] OTHER -> FloatAdd(Shift(x, 0 - 1), Shift(x, 0 - 2))

\* the milestones of getProgress: the first three compare the number of the
\* current_amount string with a product, the last compares the two strings
Milestones(goal) ==
    [i \in 1..4 |->
        IF i < 4
        THEN [percentage |-> 25 * i,
              amount |-> TimesFraction(goal.target_amount, 25 * i),
              achieved |-> FloatGeq(ParseFloat(goal.current_amount),
                                    TimesFraction(goal.target_amount, 25 * i))]
        ELSE [percentage |-> 100,
              amount |-> DecimalString(goal.target_amount),
              achieved |-> StringGeq(DecimalString(goal.current_amount),
                                     DecimalString(goal.target_amount))]]

\* milestones.find((m) => !m.achieved) || null: the percentage of the entry, 0 for null
NextMilestone(milestones) ==
    LET open == {i \in 1..4 : ~milestones[i].achieved}
    IN  IF open = {} THEN 0
        ELSE milestones[CHOOSE i \in open : \A j \in open : i <= j].percentage

GoalGetProgress(c, id) ==
    LET user == Authenticate(c)
    IN  /\ GoalFrame
        /\ UNCHANGED goals
        /\ IF ~GoalFindOne(user, id)
           THEN Reply(Response("goalGetProgress", c, id, 404, {}, NoData, <<>>))
           ELSE Reply(Response("goalGetProgress", c, id, 200, {View("goal", goals, id)},
                               [goal |-> AddCalculatedFields(id),
                                milestones |-> Milestones(goals[id]),
                                next_milestone |-> NextMilestone(Milestones(goals[id]))],
                               <<>>))

\* getAll and its summary, progress and search variants: the rows the query matches
GoalGetAll(c, mode, query) ==
    LET user == Authenticate(c)
        asked(id) ==
            /\ (mode # "search" /\ user.type = ADMIN /\ GivenNum(query, "user_id")
                   => goals[id].user_id = query.user_id)
            /\ (mode = "search" => ILike(goals[id].name, ToLowerCase(query.search)))
        rows == {id \in LiveIds(goals) : GoalBuildUserFilter(user, id) /\ asked(id)}
    IN  /\ GoalFrame
        /\ UNCHANGED goals
        /\ Reply(Response("goalGetAll", c, NoId, 200,
                          {View("goal", goals, id) : id \in rows}, [mode |-> mode], query))

(***************************************************************************)
(* CategoryController                                                       *)
(***************************************************************************)
TxFrame == UNCHANGED <<users, goals, logs, inflight>>

CategoryBuildUserFilter(user, id) ==
    IF user.type = REGULAR THEN categories[id].user_id = user.id ELSE TRUE

CategoryCreate(c, body) ==
    LET user == Authenticate(c)
        target_user_id ==
            IF user.type = ADMIN /\ GivenNum(body, "target_user_id")
            THEN body.target_user_id ELSE user.id
        Fail(status) ==
            /\ Reply(Response("categoryCreate", c, NoId, status, {}, NoData, body))
            /\ UNCHANGED categories
    IN  /\ TxFrame
        /\ UNCHANGED <<tags, transactions>>
        /\ IF ~GivenStr(body, "name") THEN Fail(400)
           ELSE IF ~LiveUser(target_user_id) THEN Fail(404)
           ELSE IF \E k \in LiveIds(categories) :
                      /\ categories[k].name = body.name
                      /\ categories[k].user_id = target_user_id
           THEN Fail(400)
           ELSE /\ Unused(categories) # {}
                /\ categories' = [categories EXCEPT ![NextId(categories)] =
                                    [st |-> "live", user_id |-> target_user_id,
                                     name |-> body.name]]
                /\ Reply(Response("categoryCreate", c, NextId(categories), 201,
                                  {View("category", categories', NextId(categories))},
                                  NoData, body))

CategoryGetAll(c, query) ==
    LET user == Authenticate(c)
        asked(id) == (user.type = ADMIN /\ GivenNum(query, "user_id"))
                        => categories[id].user_id = query.user_id
        rows == {id \in LiveIds(categories) : CategoryBuildUserFilter(user, id) /\ asked(id)}
    IN  /\ TxFrame
        /\ UNCHANGED <<categories, tags, transactions>>
        /\ Reply(Response("categoryGetAll", c, NoId, 200,
                          {View("category", categories, id) : id \in rows},
                          NoData, query))

(***************************************************************************)
(* TagController                                                            *)
(***************************************************************************)
TagBuildUserFilter(user, id) ==
    IF user.type = REGULAR THEN tags[id].user_id = user.id
    ELSE IF user.type = VIEWER
         THEN tags[id].user_id = OrElse(user.viewable_user_id, user.id)
         ELSE TRUE

TagCreate(c, body) ==
    LET user == Authenticate(c)
        target_user_id ==
            IF user.type = ADMIN /\ GivenNum(body, "target_user_id")
            THEN body.target_user_id ELSE user.id
        Fail(status) ==
            /\ Reply(Response("tagCreate", c, NoId, status, {}, NoData, body))
            /\ UNCHANGED tags
    IN  /\ TxFrame
        /\ UNCHANGED <<categories, transactions>>
        /\ IF user.type = VIEWER THEN Fail(403)
           ELSE IF ~GivenStr(body, "name") THEN Fail(400)
           ELSE IF \E t \in LiveIds(tags) :
                      /\ tags[t].name = ToLowerCase(body.name)
                      /\ tags[t].user_id = target_user_id
           THEN Fail(400)
           ELSE IF ~LiveUser(target_user_id) THEN Fail(500)
           ELSE /\ Unused(tags) # {}
                /\ tags' = [tags EXCEPT ![NextId(tags)] =
                              [st |-> "live", user_id |-> target_user_id,
                               name |-> ToLowerCase(body.name)]]
                /\ Reply(Response("tagCreate", c, NextId(tags), 201,
                                  {View("tag", tags', NextId(tags))}, NoData, body))

\* the transactions a tag query joins: those the tag is attached to, under the
\* caller's transaction filter
TagTransactions(user, query, t) ==
    {x \in LiveIds(transactions) :
        /\ t \in transactions[x].tags
        /\ (user.type = REGULAR => transactions[x].user_id = user.id)
        /\ ((user.type = ADMIN /\ GivenNum(query, "user_id"))
               => transactions[x].user_id = query.user_id)}

\* handlePopular and handleWithStats: the owner condition on the tags
TagWhere(user, query, t) ==
    IF user.type = REGULAR THEN tags[t].user_id = user.id
    ELSE IF user.type = ADMIN /\ GivenNum(query, "user_id")
         THEN tags[t].user_id = query.user_id
    ELSE IF user.type = ADMIN THEN TRUE
    ELSE tags[t].user_id = OrElse(user.viewable_user_id, user.id)

TagGetAll(c, mode, query) ==
    LET user == Authenticate(c)
        rows ==
            CASE mode = "search" ->
                    {t \in LiveIds(tags) :
                        /\ TagBuildUserFilter(user, t)
                        /\ ILike(tags[t].name, ToLowerCase(query.search))}
              [] mode = "popular" ->
                    {t \in LiveIds(tags) :
                        TagWhere(user, query, t) /\ TagTransactions(user, query, t) # {}}
              [] mode = "stats" -> {t \in LiveIds(tags) : TagWhere(user, query, t)}
              [] OTHER -> {t \in LiveIds(tags) : TagBuildUserFilter(user, t)}
    IN  /\ TxFrame
        /\ UNCHANGED <<categories, tags, transactions>>
        /\ Reply(Response("tagGetAll", c, NoId, 200,
                          {View("tag", tags, t) : t \in rows}, [mode |-> mode], query))

\* GET /tags/:id/stats: Tag.findByPk without the owner filter
TagGetStats(c, id, query) ==
    LET user == Authenticate(c)
        used == TagTransactions(user, query, id)
    IN  /\ TxFrame
        /\ UNCHANGED <<categories, tags, transactions>>
        /\ IF ~Live(tags, id)
           THEN Reply(Response("tagGetStats", c, id, 404, {}, NoData, query))
           ELSE Reply(Response("tagGetStats", c, id, 200,
                               {View("tag", tags, id)}
                                  \cup {View("transaction", transactions, x) : x \in used},
                               [usage_count |-> Cardinality(used)], query))

(***************************************************************************)
(* TransactionController                                                    *)
(***************************************************************************)
TransactionBuildUserFilter(user, id) ==
    IF user.type = REGULAR THEN transactions[id].user_id = user.id ELSE TRUE

TransactionFindOne(user, id) ==
    Live(transactions, id) /\ TransactionBuildUserFilter(user, id)

\* Category.findOne({ where: categoryWhere }): owned by the caller for a regular user
CategoryForTransaction(user, category_id) ==
    /\ Live(categories, category_id)
    /\ (user.type = REGULAR => categories[category_id].user_id = user.id)

Elements(seq) == {seq[i] : i \in 1..Len(seq)}

\* Tag.findAll({ where: tagWhere }): a regular user's own tags, for an admin the
\* tags of owner, for any other type every tag asked for
TagsForTransaction(user, owner, tagIds) ==
    {t \in LiveIds(tags) \cap tagIds :
        IF user.type = REGULAR THEN tags[t].user_id = user.id
        ELSE IF user.type = ADMIN THEN tags[t].user_id = owner
        ELSE TRUE}

\* amount min 0.01 and the type enum
TransactionValid(row) == row.amount >= 1 /\ row.type \in {<<"income">>, <<"expense">>}

\* the tags an included transaction shows: the attached tags still stored
AttachedTags(id) == transactions[id].tags \cap LiveIds(tags)

TransactionCreate(c, body) ==
    LET user == Authenticate(c)
        target_user_id ==
            IF user.type = ADMIN /\ GivenNum(body, "target_user_id")
            THEN body.target_user_id ELSE user.id
        row == [st |-> "live", user_id |-> target_user_id,
                category_id |-> body.category_id, amount |-> body.amount,
                type |-> body.type,
                date |-> IF GivenNum(body, "date") THEN body.date ELSE Today,
                tags |-> IF Has(body, "tags")
                         THEN TagsForTransaction(user, target_user_id, Elements(body.tags))
                         ELSE {}]
        Fail(status) ==
            /\ Reply(Response("transactionCreate", c, NoId, status, {}, NoData, body))
            /\ UNCHANGED transactions
    IN  /\ TxFrame
        /\ UNCHANGED <<categories, tags>>
        /\ IF \/ ~GivenNum(body, "amount") \/ ~GivenStr(body, "type")
              \/ ~GivenStr(body, "description") \/ ~GivenNum(body, "category_id")
           THEN Fail(400)
           ELSE IF ~LiveUser(target_user_id) THEN Fail(404)
           ELSE IF ~CategoryForTransaction(user, body.category_id) THEN Fail(404)
           ELSE IF ~TransactionValid(row) THEN Fail(500)
           ELSE \/ /\ Unused(transactions) # {}
                   /\ transactions' = [transactions EXCEPT ![NextId(transactions)] = row]
                   /\ Reply(Response("transactionCreate", c, NextId(transactions), 201,
                                     {View("transaction", transactions',
                                           NextId(transactions))},
                                     [tags |-> row.tags], body))
                \* where: { user_id: undefined } in the logging query: rejected by
                \* Sequelize releases that refuse undefined in a where clause
                \/ /\ user.type = VIEWER /\ Has(body, "tags")
                   /\ Fail(500)

TransactionUpdate(c, id, body) ==
    LET user == Authenticate(c)
        existing == transactions[id]
        updated == UpdateRow(existing, Without(body, {"user_id", "target_user_id", "tags"}))
        row == IF Has(body, "tags")
               THEN [updated EXCEPT !.tags =
                        TagsForTransaction(user, existing.user_id, Elements(body.tags))]
               ELSE updated
        Fail(status) ==
            /\ Reply(Response("transactionUpdate", c, id, status, {}, NoData, body))
            /\ UNCHANGED transactions
    IN  /\ TxFrame
        /\ UNCHANGED <<categories, tags>>
        /\ IF ~TransactionFindOne(user, id) THEN Fail(404)
           ELSE IF /\ GivenNum(body, "category_id")
                   /\ ~CategoryForTransaction(user, body.category_id)
           THEN Fail(404)
           ELSE IF ~TransactionValid(updated) THEN Fail(500)
           ELSE /\ transactions' = [transactions EXCEPT ![id] = row]
                /\ Reply(Response("transactionUpdate", c, id, 200,
                                  {View("transaction", transactions', id)},
                                  [tags |-> row.tags \cap LiveIds(tags)], body))

\* paranoid model: destroy marks the row deleted
TransactionDelete(c, id) ==
    LET user == Authenticate(c)
    IN  /\ TxFrame
        /\ UNCHANGED <<categories, tags>>
        /\ IF ~TransactionFindOne(user, id)
           THEN /\ Reply(Response("transactionDelete", c, id, 404, {}, NoData, <<>>))
                /\ UNCHANGED transactions
           ELSE /\ transactions' = [transactions EXCEPT ![id].st = "deleted"]
                /\ Reply(Response("transactionDelete", c, id, 204,
                                  {View("transaction", transactions, id)}, NoData, <<>>))

TransactionGetById(c, id) ==
    LET user == Authenticate(c)
    IN  /\ TxFrame
        /\ UNCHANGED <<categories, tags, transactions>>
        /\ IF ~TransactionFindOne(user, id)
           THEN Reply(Response("transactionGetById", c, id, 404, {}, NoData, <<>>))
           ELSE Reply(Response("transactionGetById", c, id, 200,
                               {View("transaction", transactions, id)},
                               [tags |-> AttachedTags(id)], <<>>))

\* getAll, getSummary and getByCategory: the rows the query matches
TransactionGetAll(c, mode, query) ==
    LET user == Authenticate(c)
        asked(id) == (user.type = ADMIN /\ GivenNum(query, "user_id"))
                        => transactions[id].user_id = query.user_id
        rows == {id \in LiveIds(transactions) :
                    TransactionBuildUserFilter(user, id) /\ asked(id)}
    IN  /\ TxFrame
        /\ UNCHANGED <<categories, tags, transactions>>
        /\ Reply(Response("transactionGetAll", c, NoId, 200,
                          {View("transaction", transactions, id) : id \in rows},
                          [mode |-> mode], query))

\* SUM(amount) of a group of rows, in cents
RECURSIVE SumAmount(_)
SumAmount(ids) ==
    IF ids = {} THEN 0
    ELSE LET id == CHOOSE i \in ids : TRUE
         IN  transactions[id].amount + SumAmount(ids \ {id})

\* the rows of getSummary without the caller's filter
SummaryWhereUnscoped(user, query, id) ==
    /\ Live(transactions, id)
    /\ GivenNum(query, "startDate") => transactions[id].date >= query.startDate
    /\ GivenNum(query, "endDate") => transactions[id].date <= query.endDate

\* the where clause of getSummary: the date range, the user_id an admin asks for,
\* buildUserFilter; the model is paranoid, so deleted rows are left out
SummaryWhere(user, query, id) ==
    /\ Live(transactions, id)
    /\ GivenNum(query, "startDate") => transactions[id].date >= query.startDate
    /\ GivenNum(query, "endDate") => transactions[id].date <= query.endDate
    /\ (user.type = ADMIN /\ GivenNum(query, "user_id"))
          => transactions[id].user_id = query.user_id
    /\ TransactionBuildUserFilter(user, id)

\* one row of the grouped query, parsed: parseFloat(row.total) || 0 and
\* parseInt(row.count) || 0; a type without rows keeps the defaults
SummaryGroup(user, query, type) ==
    LET group == {id \in DOMAIN transactions :
                     SummaryWhere(user, query, id) /\ transactions[id].type = type}
    IN  [total |-> ParseFloat(SumAmount(group)), count |-> Cardinality(group)]

\* GET /transactions?summary=true
TransactionGetSummary(c, query) ==
    LET user == Authenticate(c)
        income == SummaryGroup(user, query, <<"income">>)
        expense == SummaryGroup(user, query, <<"expense">>)
    IN  /\ TxFrame
        /\ UNCHANGED <<categories, tags, transactions>>
        /\ Reply(Response("transactionGetSummary", c, NoId, 200, {},
                          [income |-> income, expense |-> expense,
                           balance |-> FloatSub(income.total, expense.total)], query))

(***************************************************************************)
(* UserController                                                           *)
(***************************************************************************)
\* the path parameter "me" is carried as the null id
IsMe(param) == param = NoId

\* buildUserFilter(req, { id }): the id the query ends up asking for
UserBuildUserFilter(user, id) ==
    IF user.type = REGULAR THEN user.id
    ELSE IF user.type = VIEWER THEN OrElse(user.viewable_user_id, user.id)
    ELSE id

\* /^[^\s@]+@[^\s@]+\.[^\s@]+$/
EmailRegexTest(e) ==
    /\ \A i \in 1..Len(e) : e[i] # " "
    /\ \E i \in 2..Len(e) :
          /\ e[i] = "@"
          /\ \A j \in 1..Len(e) : e[j] = "@" => j = i
          /\ \E k \in (i + 2)..(Len(e) - 1) : e[k] = "."

MinPasswordLength == 6

AllowedFields(user) ==
    IF user.type = ADMIN THEN {"name", "email", "password", "type", "active"}
    ELSE {"name", "email", "password"}

\* the allowed fields of the body, email lower-cased and trimmed, password hashed,
\* name trimmed
UserUpdateData(user, body) ==
    LET picked == [f \in (DOMAIN body) \cap AllowedFields(user) |-> body[f]]
    IN  [f \in DOMAIN picked |->
            IF f = "email" /\ picked[f] # <<>> THEN Trim(ToLowerCase(picked[f]))
            ELSE IF f = "password" /\ picked[f] # <<>> THEN Hash(picked[f])
            ELSE IF f = "name" /\ picked[f] # <<>> THEN Trim(picked[f])
            ELSE picked[f]]

\* the validation of the picked fields fails
UserUpdateInvalid(user, existingId, body) ==
    LET data == UserUpdateData(user, body)
    IN  \/ /\ GivenStr(body, "email")
           /\ \/ ~EmailRegexTest(body.email)
              \/ /\ data.email # users[existingId].email
                 /\ \E u \in (DOMAIN users) \ {existingId} :
                       LiveUser(u) /\ users[u].email = data.email
        \/ GivenStr(body, "password") /\ Len(body.password) < MinPasswordLength

UserFrame == UNCHANGED <<categories, tags, goals, transactions, logs, inflight>>

UserUpdate(c, param, body) ==
    LET user == Authenticate(c)
        userId == IF IsMe(param) THEN user.id ELSE param
        found == UserBuildUserFilter(user, userId)
        Fail(status) ==
            /\ Reply(Response("userUpdate", c, param, status, {}, NoData, body))
            /\ UNCHANGED users
    IN  /\ UserFrame
        /\ IF ~LiveUser(found) THEN Fail(404)
           ELSE IF UserUpdateInvalid(user, found, body) THEN Fail(400)
           ELSE /\ users' = [users EXCEPT ![found] =
                               UpdateRow(users[found], UserUpdateData(user, body))]
                /\ Reply(Response("userUpdate", c, param, 200,
                                  {[kind |-> "user", id |-> found, user_id |-> found]},
                                  NoData, body))

UserGetById(c, param) ==
    LET user == Authenticate(c)
        found == IF IsMe(param) THEN user.id ELSE UserBuildUserFilter(user, param)
    IN  /\ UserFrame
        /\ UNCHANGED users
        /\ IF ~LiveUser(found)
           THEN Reply(Response("userGetById", c, param, 404, {}, NoData, <<>>))
           ELSE Reply(Response("userGetById", c, param, 200,
                               {[kind |-> "user", id |-> found, user_id |-> found]},
                               Without(users[found], {"password", "st"}), <<>>))

(***************************************************************************)
(* Requests on /goals                                                       *)
(***************************************************************************)
Callers == UserIds

GoalCreateBodies ==
    {[name |-> <<"a">>, target_amount |-> 7],
     [name |-> <<"b", " ">>, target_amount |-> 7, current_amount |-> 7],
     [name |-> <<"a">>, target_amount |-> 7, target_user_id |-> 3],
     [name |-> <<"a">>]}

GoalUpdateBodies ==
    {[current_amount |-> 7], [current_amount |-> 1], [target_amount |-> 6],
     [is_completed |-> FALSE],
     [name |-> <<"b">>, user_id |-> 3]}

ProgressBodies == {<<>>, [amount |-> 0], [amount |-> 0 - 1], [amount |-> 6]}

GoalQueries ==
    {<<"plain", <<>>>>, <<"plain", [user_id |-> 2]>>, <<"summary", [summary |-> TRUE]>>,
     <<"progress", [progress |-> TRUE]>>, <<"search", [search |-> <<"A">>]>>}

Init ==
    /\ users = SeedUsers
    /\ categories = [id \in CategoryIds |-> BlankCategory("unused")]
    /\ tags = [id \in TagIds |-> BlankTag("unused")]
    /\ goals = [id \in GoalIds |-> BlankGoal("unused")]
    /\ transactions = [id \in TransactionIds |-> BlankTransaction("unused")]
    /\ logs = <<>>
    /\ inflight = <<>>
    /\ resp = Response("none", NoId, NoId, 0, {}, NoData, <<>>)

NextGoal ==
    \/ \E c \in Callers, body \in GoalCreateBodies : GoalCreate(c, body)
    \/ \E c \in Callers, id \in GoalIds, body \in GoalUpdateBodies : GoalUpdate(c, id, body)
    \/ \E c \in Callers, id \in GoalIds : GoalDelete(c, id)
    \/ \E c \in Callers, id \in GoalIds, body \in ProgressBodies :
          GoalAddProgress(c, id, body)
    \/ \E c \in Callers, id \in GoalIds : GoalGetById(c, id)
    \/ \E c \in Callers, q \in GoalQueries : GoalGetAll(c, q[1], q[2])

SpecGoal == Init /\ [][NextGoal]_vars

(***************************************************************************)
(* Requests on /categories, /tags and /transactions                         *)
(***************************************************************************)
CategoryCreateBodies == {[name |-> <<"c">>, target_user_id |-> 3], <<>>}

TagCreateBodies == {[name |-> <<"T">>, target_user_id |-> 3], <<>>}

TransactionCreateBodies ==
    {[amount |-> 5, type |-> <<"expense">>, description |-> <<"d">>, category_id |-> 1,
      tags |-> <<1, 2>>, target_user_id |-> 3],
     [amount |-> 5, type |-> <<"expense">>, description |-> <<"d">>, category_id |-> 1],
     [amount |-> 5, type |-> <<"expense">>]}

TransactionUpdateBodies == {[tags |-> <<1, 2>>], [user_id |-> 3, tags |-> <<>>]}

ListQueries == {<<>>, [user_id |-> 2]}

TagQueries ==
    {<<"plain", <<>>>>, <<"search", [search |-> <<"T">>]>>,
     <<"popular", [popular |-> TRUE]>>, <<"stats", [stats |-> TRUE, user_id |-> 2]>>}

TransactionModes == {"plain", "summary", "by_category"}

NextTx ==
    \/ \E c \in Callers, body \in CategoryCreateBodies : CategoryCreate(c, body)
    \/ \E c \in Callers, q \in ListQueries : CategoryGetAll(c, q)
    \/ \E c \in Callers, body \in TagCreateBodies : TagCreate(c, body)
    \/ \E c \in Callers, q \in TagQueries : TagGetAll(c, q[1], q[2])
    \/ \E c \in Callers, id \in TagIds : TagGetStats(c, id, <<>>)
    \/ \E c \in Callers, body \in TransactionCreateBodies : TransactionCreate(c, body)
    \/ \E c \in Callers, id \in TransactionIds, body \in TransactionUpdateBodies :
          TransactionUpdate(c, id, body)
    \/ \E c \in Callers, id \in TransactionIds : TransactionDelete(c, id)
    \/ \E c \in Callers, id \in TransactionIds : TransactionGetById(c, id)
    \/ \E c \in Callers, m \in TransactionModes, q \in ListQueries :
          TransactionGetAll(c, m, q)

SpecTx == Init /\ [][NextTx]_vars

(***************************************************************************)
(* Requests on /users                                                       *)
(***************************************************************************)
UserParams == {NoId, 2, 4}

UserUpdateBodies ==
    {[name |-> <<"z", " ">>, password |-> <<"p", "a", "s", "s", "w", "d">>],
     [email |-> Email("A")],
     [email |-> <<"n", "@", "x">>],
     [password |-> <<"p", "w">>],
     [type |-> ADMIN, active |-> FALSE, viewable_user_id |-> 3]}

NextUser ==
    \/ \E c \in Callers, p \in UserParams, body \in UserUpdateBodies :
          UserUpdate(c, p, body)
    \/ \E c \in Callers, p \in UserParams : UserGetById(c, p)

SpecUser == Init /\ [][NextUser]_vars

(***************************************************************************)
(* Delete guards of categories and tags                                     *)
(***************************************************************************)
\* Transaction.count({ where: { category_id } }) without the guard: nothing is counted
CategoryTransactionCountNone(id) == 0

\* Transaction.count({ where: { category_id } }): the model is paranoid, so
\* soft-deleted rows are not counted
CategoryTransactionCount(id) ==
    Cardinality({t \in LiveIds(transactions) : transactions[t].category_id = id})

\* transactions.category_id REFERENCES categories ON DELETE RESTRICT: a stored row,
\* soft-deleted or not, holds the category
CategoryRestricted(id) ==
    \E t \in DOMAIN transactions :
        transactions[t].st \in {"live", "deleted"} /\ transactions[t].category_id = id

CategoryDelete(c, id) ==
    LET user == Authenticate(c)
        transactionCount == CategoryTransactionCount(id)
        Fail(status, data) ==
            /\ Reply(Response("categoryDelete", c, id, status, {}, data, <<>>))
            /\ UNCHANGED categories
    IN  /\ TxFrame
        /\ UNCHANGED <<tags, transactions>>
        /\ IF ~(Live(categories, id) /\ CategoryBuildUserFilter(user, id))
           THEN Fail(404, NoData)
           ELSE IF transactionCount > 0 THEN Fail(400, [count |-> transactionCount])
           ELSE IF CategoryRestricted(id) THEN Fail(500, NoData)
           ELSE /\ categories' = [categories EXCEPT ![id].st = "deleted"]
                /\ Reply(Response("categoryDelete", c, id, 204, {}, NoData, <<>>))

\* transactionWhere: whose transactions the usage count looks at
TagTransactionWhere(user, id, t) ==
    IF user.type = REGULAR THEN transactions[t].user_id = user.id
    ELSE IF user.type = ADMIN /\ tags[id].user_id # user.id
         THEN transactions[t].user_id = tags[id].user_id
         ELSE TRUE

\* Transaction.count({ where: transactionWhere, include: tags where id })
TagTransactionCount(user, id) ==
    Cardinality({t \in LiveIds(transactions) :
                    TagTransactionWhere(user, id, t) /\ id \in transactions[t].tags})

TagDelete(c, id) ==
    LET user == Authenticate(c)
        transactionCount == TagTransactionCount(user, id)
        Fail(status, data) ==
            /\ Reply(Response("tagDelete", c, id, status, {}, data, <<>>))
            /\ UNCHANGED <<tags, transactions>>
    IN  /\ TxFrame
        /\ UNCHANGED categories
        /\ IF ~(Live(tags, id) /\ TagBuildUserFilter(user, id)) THEN Fail(404, NoData)
           ELSE IF user.type = REGULAR /\ tags[id].user_id # user.id
           THEN Fail(403, NoData)
           ELSE IF transactionCount > 0 THEN Fail(400, [count |-> transactionCount])
           ELSE /\ tags' = [tags EXCEPT ![id].st = "deleted"]
                \* TransactionTags.tag_id ON DELETE CASCADE
                /\ transactions' =
                      [t \in DOMAIN transactions |->
                          [transactions[t] EXCEPT !.tags = @ \ {id}]]
                /\ Reply(Response("tagDelete", c, id, 204, {}, NoData, <<>>))

NextGuard ==
    \/ \E c \in Callers, body \in CategoryCreateBodies : CategoryCreate(c, body)
    \/ \E c \in Callers, body \in TagCreateBodies : TagCreate(c, body)
    \/ \E c \in Callers, body \in TransactionCreateBodies : TransactionCreate(c, body)
    \/ \E c \in Callers, id \in TransactionIds, body \in TransactionUpdateBodies :
          TransactionUpdate(c, id, body)
    \/ \E c \in Callers, id \in TransactionIds : TransactionDelete(c, id)
    \/ \E c \in Callers, id \in CategoryIds : CategoryDelete(c, id)
    \/ \E c \in Callers, id \in TagIds : TagDelete(c, id)

SpecGuard == Init /\ [][NextGuard]_vars

(***************************************************************************)
(* Properties of the goal endpoints                                         *)
(***************************************************************************)
ListOps == {"goalGetAll", "transactionGetAll", "categoryGetAll", "tagGetAll"}

WriteOps ==
    {"goalCreate", "goalUpdate", "goalDelete", "goalAddProgress",
     "categoryCreate", "categoryUpdate", "categoryDelete",
     "tagCreate", "tagUpdate", "tagDelete",
     "transactionCreate", "transactionUpdate", "transactionDelete"}

IsViewer(u) == u \in DOMAIN users /\ users[u].type = VIEWER

\* C1: a list answered to a non-admin caller holds only rows whose user_id is the
\* caller's effective scope (own id; for a viewer the delegated user, else own id)
C1_ListWithinScope ==
    (resp.op \in ListOps /\ users[resp.caller].type # ADMIN)
        => \A r \in resp.rows : r.user_id = EffectiveScope(resp.caller)

SuccessStatus == {200, 201, 204}

\* C2: a write request of a viewer is refused (403, nothing stored changes); in
\* particular it is never answered with a success status
C2_ViewerWriteRefused ==
    (resp.op \in WriteOps /\ IsViewer(resp.caller)) => resp.status \notin SuccessStatus

\* C5: a goal that is completed stays completed for as long as it is stored
C5_CompletionOneWay ==
    [][\A id \in GoalIds :
          (Live(goals, id) /\ goals[id].is_completed /\ Live(goals', id))
              => goals'[id].is_completed]_vars

\* C6: every stored goal with current_amount >= target_amount is completed
C6_ReachedImpliesCompleted ==
    \A id \in LiveIds(goals) :
        goals[id].current_amount >= goals[id].target_amount => goals[id].is_completed

\* the step answers the same addProgress request that the last step accepted
SecondIdenticalCall ==
    /\ resp.op = "goalAddProgress" /\ resp.status = 200
    /\ resp'.op = "goalAddProgress"
    /\ resp'.caller = resp.caller /\ resp'.target = resp.target /\ resp'.req = resp.req

\* C7 as stated: the identical addProgress request issued twice adds 2 x amount, the
\* second call is not an error even after the first reached the target, and
\* is_completed stays true
C7_TwiceAddsTwice ==
    [][SecondIdenticalCall
          => /\ resp'.status = 200
             /\ goals'[resp.target].current_amount =
                   resp.data.before.current_amount + 2 * resp.req.amount
             /\ (goals[resp.target].is_completed => goals'[resp.target].is_completed)]_vars

\* C7 amended: if the first call left the goal not completed the second one is
\* accepted and the two add 2 x amount; if the first call completed the goal the
\* second one is answered 400 and the goal keeps the single increase; addProgress
\* never resets is_completed
C7_TwiceUnlessCompleted ==
    [][SecondIdenticalCall
          => IF goals[resp.target].is_completed
             THEN /\ resp'.status = 400
                  /\ goals' = goals
                  /\ goals'[resp.target].current_amount =
                        resp.data.before.current_amount + resp.req.amount
             ELSE /\ resp'.status = 200
                  /\ goals'[resp.target].current_amount =
                        resp.data.before.current_amount + 2 * resp.req.amount]_vars

\* the second of two identical calls has been accepted: the goal held one amount
\* before it and holds two after it
C7_Witness ==
    /\ resp.op = "goalAddProgress" /\ resp.status = 200
    /\ resp.data.before.current_amount = resp.req.amount
    /\ goals[resp.target].current_amount = 2 * resp.req.amount

\* C8: addProgress with a missing, zero or negative amount, or on a completed goal
\* the caller can address, is answered 400 and leaves the goal unchanged
C8_RejectedUnchanged ==
    [][(/\ resp'.op = "goalAddProgress"
        /\ \/ ~Has(resp'.req, "amount")
           \/ resp'.req.amount <= 0
           \/ /\ GoalFindOne(Authenticate(resp'.caller), resp'.target)
              /\ goals[resp'.target].is_completed)
          => (resp'.status = 400 /\ goals' = goals)]_vars

\* a positive amount has been refused on a completed goal
C8_Witness ==
    /\ resp.op = "goalAddProgress" /\ resp.status = 400
    /\ Has(resp.req, "amount") /\ resp.req.amount > 0
    /\ Live(goals, resp.target) /\ goals[resp.target].is_completed
    /\ goals[resp.target].current_amount >= goals[resp.target].target_amount

\* C9: an accepted addProgress completes the goal when current_amount + amount
\* equals target_amount and leaves it active when the sum stays below
C9_ExactAmountCompletes ==
    [][(resp'.op = "goalAddProgress" /\ resp'.status = 200)
          => LET before == resp'.data.before
                 sum == before.current_amount + resp'.req.amount
             IN  /\ sum = before.target_amount => goals'[resp'.target].is_completed
                 /\ sum < before.target_amount => ~goals'[resp'.target].is_completed]_vars

(***************************************************************************)
(* Properties of the user, tag and transaction endpoints                    *)
(***************************************************************************)
\* the step answers a profile update a viewer sent to /users/me or /users/<own id>
ViewerSelfUpdate ==
    /\ resp'.op = "userUpdate"
    /\ users[resp'.caller].type = VIEWER
    /\ (IsMe(resp'.target) \/ resp'.target = resp'.caller)

ByIdOrCreateOps ==
    {"goalGetById", "goalUpdate", "goalDelete", "goalAddProgress", "goalCreate",
     "categoryCreate", "tagCreate", "tagGetStats",
     "transactionGetById", "transactionUpdate", "transactionDelete", "transactionCreate"}

\* C4: what a regular caller reads, changes or creates by id is a row of its own
C4_RegularOwnRowsOnly ==
    (resp.op \in ByIdOrCreateOps /\ users[resp.caller].type = REGULAR)
        => \A r \in resp.rows : r.user_id = resp.caller

\* C10: an update of a transaction leaves it with tags of its owner only
C10_UpdateKeepsTagOwner ==
    (resp.op = "transactionUpdate" /\ resp.status = 200)
        => \A t \in AttachedTags(resp.target) :
              tags[t].user_id = transactions[resp.target].user_id

(***************************************************************************)
(* Properties of the delete guards                                          *)
(***************************************************************************)
\* C11: deleting a category the caller can address while a transaction references it
\* is answered 400 with the number of those transactions and changes neither the
\* categories nor the transactions; a category is removed only when no stored
\* transaction references it, so no stored transaction references a deleted category
C11_ReferencedCategoryKept ==
    [][/\ resp'.op = "categoryDelete"
          => LET id == resp'.target
                 blocking == {t \in LiveIds(transactions) :
                                 transactions[t].category_id = id}
             IN  /\ (/\ Live(categories, id)
                     /\ CategoryBuildUserFilter(Authenticate(resp'.caller), id)
                     /\ blocking # {})
                       => /\ resp'.status = 400
                          /\ resp'.data = [count |-> Cardinality(blocking)]
                          /\ categories' = categories
                          /\ transactions' = transactions
                 /\ categories' # categories
                       => /\ resp'.status = 204
                          /\ blocking = {}
                          /\ categories' = [categories EXCEPT ![id].st = "deleted"]
       /\ \A t \in DOMAIN transactions' :
              (transactions'[t].st \in {"live", "deleted"}
                  /\ transactions'[t].category_id # NoId)
                 => Live(categories', transactions'[t].category_id)]_vars

\* a category delete has been refused with the count of the one transaction using it
C11_Witness ==
    /\ resp.op = "categoryDelete" /\ resp.status = 400
    /\ resp.data = [count |-> 1]
    /\ Live(categories, resp.target)
    /\ \E t \in LiveIds(transactions) : transactions[t].category_id = resp.target

\* C12: a tag delete removes the tag only if no transaction of any owner carries the
\* tag; a delete of a tag in use that reaches the usage check is answered 400 with
\* the usage count and leaves the tag and its associations
C12_UsedTagKept ==
    [][resp'.op = "tagDelete"
          => LET id == resp'.target
                 using == {t \in LiveIds(transactions) : id \in transactions[t].tags}
             IN  /\ tags' # tags => using = {}
                 /\ (resp'.status \notin {403, 404} /\ using # {})
                       => /\ resp'.status = 400
                          /\ resp'.data = [count |-> Cardinality(using)]
                          /\ tags' = tags
                          /\ transactions' = transactions]_vars

(***************************************************************************)
(* Accounts: authenticate in front of a handler, POST /auth/register,       *)
(* POST /users, DELETE /users/:id and DELETE /users/me.  These handlers     *)
(* leave the log store to the middleware around them.                       *)
(***************************************************************************)
MaxUsers == 5

\* what the Authorization header carries: nothing, a token jwt.verify rejects
\* (malformed or expired), or a token that verifies with subject id
Credentials(ids) ==
    {[kind |-> "none", id |-> NoId], [kind |-> "invalid", id |-> NoId],
     [kind |-> "expired", id |-> NoId]}
        \cup {[kind |-> "valid", id |-> u] : u \in ids}

ValidCredentials(ids) == {[kind |-> "valid", id |-> u] : u \in ids}

\* a lookup that still returns the row of a deleted user
FindByPkAny(id) == id \in DOMAIN users

\* User.findByPk(decoded.id) finds a row
FindByPk(id) == LiveUser(id)

\* authenticate lets the request through to the handler: the header is present,
\* the token verifies and its subject is a stored user
Authenticated(cred) == cred.kind = "valid" /\ FindByPk(cred.id)

\* authenticate answers 401 itself and the handler does not run
Unauthorized(cred) ==
    LET message == IF cred.kind = "none" THEN "Token nao fornecido"
                   ELSE IF cred.kind # "valid" THEN "Token invalido"
                   ELSE "Usuario nao encontrado"
    IN  /\ ~Authenticated(cred)
        /\ Reply(Response("authenticate", NoId, NoId, 401, {},
                          [message |-> message], cred))
        /\ UNCHANGED <<users, categories, tags, goals, transactions>>

\* autoIncrement on users: rows are appended and ids never reused
NewUserId == Len(users) + 1

\* register: the type of the body, a viewable_user_id only for type 2, and only an
\* existence check on it; the answer and the users it leaves
RegisterResult(body) ==
    LET type == IF Has(body, "type") THEN body.type ELSE 0
        viewable_user_id ==
            IF type = VIEWER /\ Has(body, "viewable_user_id")
            THEN body.viewable_user_id ELSE NoId
        Fail(status) ==
            [resp |-> Response("register", NoId, NoId, status, {}, NoData, body),
             users |-> users, logs |-> logs]
    IN  IF ~GivenStr(body, "email") \/ ~GivenStr(body, "password")
           \/ ~GivenStr(body, "name")
        THEN Fail(400)
        ELSE IF \E u \in DOMAIN users : LiveUser(u) /\ users[u].email = body.email
        THEN Fail(400)
        ELSE IF type = VIEWER /\ Truthy(viewable_user_id) /\ ~LiveUser(viewable_user_id)
        THEN Fail(400)
        ELSE [resp |-> Response("register", NoId, NewUserId, 201,
                                {[kind |-> "user", id |-> NewUserId,
                                  user_id |-> NewUserId]}, NoData, body),
              users |-> Append(users,
                               [st |-> "live", type |-> type,
                                viewable_user_id |-> viewable_user_id,
                                name |-> body.name, email |-> body.email,
                                password |-> Hash(body.password), active |-> TRUE]),
              logs |-> logs]

Register(body) ==
    /\ UNCHANGED <<categories, tags, goals, transactions>>
    /\ Len(RegisterResult(body).users) <= MaxUsers
    /\ users' = RegisterResult(body).users
    /\ Reply(RegisterResult(body).resp)

\* POST /users with a regular caller that may ask for any type
RegularMayCreate(requestedType) == TRUE

\* a regular caller may only ask for a viewer account
RegularMayCreateType(requestedType) == requestedType = VIEWER

UserCreate(c, body) ==
    LET user == Authenticate(c)
        requestedType == IF Has(body, "type") THEN body.type ELSE 0
        viewable_user_id == IF Has(body, "viewable_user_id")
                            THEN body.viewable_user_id ELSE NoId
        finalViewableUserId ==
            IF requestedType # VIEWER THEN NoId
            ELSE IF user.type = REGULAR THEN user.id
            ELSE viewable_user_id
        Fail(status) ==
            /\ Reply(Response("userCreate", c, NoId, status, {}, NoData, body))
            /\ UNCHANGED users
    IN  /\ UNCHANGED <<categories, tags, goals, transactions>>
        /\ IF ~GivenStr(body, "name") \/ ~GivenStr(body, "email")
              \/ ~GivenStr(body, "password")
           THEN Fail(400)
           ELSE IF user.type = REGULAR /\ ~RegularMayCreateType(requestedType)
           THEN Fail(403)
           ELSE IF /\ user.type = REGULAR
                   /\ Truthy(viewable_user_id) /\ viewable_user_id # user.id
           THEN Fail(403)
           ELSE IF user.type \notin {ADMIN, REGULAR} THEN Fail(403)
           ELSE IF ~EmailRegexTest(body.email) THEN Fail(400)
           ELSE IF \E u \in DOMAIN users :
                      LiveUser(u) /\ users[u].email = Trim(ToLowerCase(body.email))
           THEN Fail(400)
           ELSE IF Len(body.password) < MinPasswordLength THEN Fail(400)
           ELSE IF /\ requestedType = VIEWER /\ user.type = ADMIN
                   /\ (~Truthy(viewable_user_id) \/ ~LiveUser(viewable_user_id))
           THEN Fail(400)
           ELSE /\ NewUserId <= MaxUsers
                /\ users' = Append(users,
                                   [st |-> "live", type |-> requestedType,
                                    viewable_user_id |-> finalViewableUserId,
                                    name |-> Trim(body.name),
                                    email |-> Trim(ToLowerCase(body.email)),
                                    password |-> Hash(body.password),
                                    active |-> IF Has(body, "active")
                                               THEN body.active ELSE TRUE])
                /\ Reply(Response("userCreate", c, NewUserId, 201,
                                  {[kind |-> "user", id |-> NewUserId,
                                    user_id |-> NewUserId]}, NoData, body))

\* the three counts that block a delete, with no row counted
UserDataCountNone(id) == [transactions |-> 0, categories |-> 0, goals |-> 0, total |-> 0]

\* Transaction.count (paranoid), Category.count and Goal.count with user_id = id
UserDataCount(id) ==
    LET owned(table) == Cardinality({r \in LiveIds(table) : table[r].user_id = id})
    IN  [transactions |-> owned(transactions), categories |-> owned(categories),
         goals |-> owned(goals),
         total |-> owned(transactions) + owned(categories) + owned(goals)]

\* the data check and user.destroy that DELETE /users/:id and /users/me share.
\* users.viewable_user_id REFERENCES users without ON DELETE holds a user that a
\* viewer row names; transactions.user_id ON DELETE CASCADE takes the user's
\* soft-deleted transactions along
DestroyUser(op, c, param, id) ==
    LET Fail(status, data) ==
            /\ Reply(Response(op, c, param, status, {}, data, <<>>))
            /\ UNCHANGED <<users, transactions>>
    IN  IF ~LiveUser(id) THEN Fail(404, NoData)
        ELSE IF UserDataCount(id).total > 0 THEN Fail(400, UserDataCount(id))
        ELSE IF \E v \in DOMAIN users : LiveUser(v) /\ users[v].viewable_user_id = id
        THEN Fail(500, NoData)
        ELSE /\ users' = [users EXCEPT ![id].st = "deleted"]
             /\ transactions' =
                   [t \in DOMAIN transactions |->
                       IF transactions[t].st = "deleted" /\ transactions[t].user_id = id
                       THEN BlankTransaction("purged") ELSE transactions[t]]
             /\ Reply(Response(op, c, param, 204, {}, NoData, <<>>))

UserDelete(c, requestedUserId) ==
    LET user == Authenticate(c)
    IN  /\ UNCHANGED <<categories, tags, goals>>
        /\ IF user.type # ADMIN /\ requestedUserId # user.id
           THEN /\ Reply(Response("userDelete", c, requestedUserId, 403, {}, NoData, <<>>))
                /\ UNCHANGED <<users, transactions>>
           ELSE DestroyUser("userDelete", c, requestedUserId, requestedUserId)

UserDeleteSelf(c) ==
    /\ UNCHANGED <<categories, tags, goals>>
    /\ DestroyUser("userDeleteSelf", c, NoId, Authenticate(c).id)

(***************************************************************************)
(* Requests that create and delete owned rows and delete accounts           *)
(***************************************************************************)
OwnerGoalBodies == {[name |-> <<"g">>, target_amount |-> 10, target_user_id |-> 3]}

NextOwner ==
    \/ \E cred \in ValidCredentials(UserIds), body \in CategoryCreateBodies :
          Authenticated(cred) /\ CategoryCreate(cred.id, body)
    \/ \E cred \in ValidCredentials(UserIds), id \in CategoryIds :
          Authenticated(cred) /\ CategoryDelete(cred.id, id)
    \/ \E cred \in ValidCredentials(UserIds), body \in OwnerGoalBodies :
          Authenticated(cred) /\ GoalCreate(cred.id, body)
    \/ \E cred \in ValidCredentials(UserIds), id \in GoalIds :
          Authenticated(cred) /\ GoalDelete(cred.id, id)
    \/ \E cred \in ValidCredentials(UserIds), body \in TransactionCreateBodies :
          Authenticated(cred) /\ TransactionCreate(cred.id, body)
    \/ \E cred \in ValidCredentials(UserIds), id \in TransactionIds :
          Authenticated(cred) /\ TransactionDelete(cred.id, id)
    \/ \E cred \in ValidCredentials(UserIds), id \in UserIds :
          Authenticated(cred) /\ UserDelete(cred.id, id) /\ UNCHANGED <<logs, inflight>>
    \/ \E cred \in ValidCredentials(UserIds) :
          Authenticated(cred) /\ UserDeleteSelf(cred.id) /\ UNCHANGED <<logs, inflight>>
    \/ \E cred \in ValidCredentials(UserIds) : Unauthorized(cred) /\ UNCHANGED <<logs, inflight>>

SpecOwner == Init /\ [][NextOwner]_vars

(***************************************************************************)
(* Requests on /auth/register and /users with any Authorization header      *)
(***************************************************************************)
NewAccount(fields) ==
    [name |-> <<"n">>, email |-> Email("n"),
     password |-> <<"s", "e", "c", "r", "e", "t">>] @@ fields

RegisterBodies ==
    {NewAccount([type |-> VIEWER]), NewAccount([type |-> VIEWER, viewable_user_id |-> 4]),
     NewAccount([viewable_user_id |-> 2]), [email |-> Email("n")]}

UserCreateBodies ==
    {NewAccount([type |-> VIEWER]), NewAccount([type |-> VIEWER, viewable_user_id |-> 3]),
     NewAccount([type |-> VIEWER, viewable_user_id |-> 4]), NewAccount([type |-> ADMIN]),
     NewAccount(<<>>), [type |-> ADMIN]}

AccountUpdateBodies == {[type |-> VIEWER], [type |-> ADMIN]}

AccountIds == 1..MaxUsers

NextAccount ==
    \/ \E body \in RegisterBodies : Register(body) /\ UNCHANGED <<logs, inflight>>
    \/ \E cred \in Credentials(AccountIds), body \in UserCreateBodies :
          Authenticated(cred) /\ UserCreate(cred.id, body) /\ UNCHANGED <<logs, inflight>>
    \/ \E cred \in Credentials(AccountIds), p \in {2, 4}, body \in AccountUpdateBodies :
          Authenticated(cred) /\ UserUpdate(cred.id, p, body)
    \/ \E cred \in Credentials(AccountIds), id \in AccountIds :
          Authenticated(cred) /\ UserDelete(cred.id, id) /\ UNCHANGED <<logs, inflight>>
    \/ \E cred \in Credentials(AccountIds) :
          Authenticated(cred) /\ UserDeleteSelf(cred.id) /\ UNCHANGED <<logs, inflight>>
    \/ \E cred \in Credentials(AccountIds) : Unauthorized(cred) /\ UNCHANGED <<logs, inflight>>

SpecAccount == Init /\ [][NextAccount]_vars

(***************************************************************************)
(* Requests without an admin's token: register without a token, and the     *)
(* /users routes under the tokens of the regular users and the viewer       *)
(***************************************************************************)
OpenCallers == {2, 3, 4}

OpenRegisterBodies ==
    {NewAccount([type |-> ADMIN]), NewAccount(<<>>),
     [name |-> <<"m">>, email |-> Email("m"),
      password |-> <<"s", "e", "c", "r", "e", "t">>, type |-> VIEWER]}

OpenCreateBodies == {NewAccount([type |-> ADMIN]), NewAccount([type |-> VIEWER])}

OpenUpdateBodies ==
    {[type |-> ADMIN], [active |-> FALSE], [name |-> <<"z">>, type |-> ADMIN]}

NextOpen ==
    \/ \E body \in OpenRegisterBodies : Register(body) /\ UNCHANGED <<logs, inflight>>
    \/ \E cred \in Credentials(OpenCallers), body \in OpenCreateBodies :
          Authenticated(cred) /\ UserCreate(cred.id, body) /\ UNCHANGED <<logs, inflight>>
    \/ \E cred \in Credentials(OpenCallers), p \in {1, 2, 4}, body \in OpenUpdateBodies :
          Authenticated(cred) /\ UserUpdate(cred.id, p, body)
    \/ \E cred \in Credentials(OpenCallers), id \in AccountIds :
          Authenticated(cred) /\ UserDelete(cred.id, id) /\ UNCHANGED <<logs, inflight>>
    \/ \E cred \in Credentials(OpenCallers) :
          Authenticated(cred) /\ UserDeleteSelf(cred.id) /\ UNCHANGED <<logs, inflight>>
    \/ \E cred \in Credentials(OpenCallers) : Unauthorized(cred) /\ UNCHANGED <<logs, inflight>>

SpecOpen == Init /\ [][NextOpen]_vars

(***************************************************************************)
(* The audit log: logMiddleware on the router mounted at /api, and the      *)
(* LogController behind it.  A parsed JSON object is a sequence of members  *)
(* [k, t, v]: the key as characters, t one of "scalar", "object", "array",  *)
(* and v the value (for an array, members keyed by their index).            *)
(***************************************************************************)
MaxLogs == 6

\* String.prototype.includes
Includes(s, t) == \E i \in 1..(Len(s) - Len(t) + 1) : SubSeq(s, i, i + Len(t) - 1) = t

\* req.path inside the router: the url without the mount path /api
ReqPath(url) == SubSeq(url, 5, Len(url))

SkipPaths ==
    {<<"/", "a", "p", "i", "/", "l", "o", "g", "s">>, <<"/", "h", "e", "a", "l", "t", "h">>,
     <<"/", "s", "t", "a", "t", "u", "s">>,
     <<"/", "f", "a", "v", "i", "c", "o", "n", ".", "i", "c", "o">>}

ShouldSkipLogging(method, path) ==
    \/ method = "GET"
    \/ Includes(path, <<"/", "a", "u", "t", "h", "/", "l", "o", "g", "i", "n">>)
    \/ \E skipPath \in SkipPaths : Includes(path, skipPath)

\* determineEntityType, on the paths the router knows
DetermineEntityType(path) ==
    IF Includes(path, <<"/", "a", "u", "t", "h", "/">>) THEN "auth"
    ELSE IF Includes(path, <<"/", "u", "s", "e", "r", "s">>) THEN "user"
    ELSE IF Includes(path, <<"/", "l", "o", "g", "s">>) THEN "log"
    ELSE "unknown"

\* determineAction for the methods that are logged
DetermineAction(method, path) ==
    IF Includes(path, <<"/", "a", "u", "t", "h", "/", "r", "e", "g", "i", "s", "t", "e", "r">>)
    THEN "register"
    ELSE IF Includes(path, <<"/", "a", "u", "t", "h", "/", "l", "o", "g", "i", "n">>)
    THEN "login"
    ELSE CASE method = "POST" -> "create" [] method = "PUT" -> "update"
           [] method = "DELETE" -> "delete" [] OTHER -> "unknown"

SensitiveFields ==
    {<<"p", "a", "s", "s", "w", "o", "r", "d">>, <<"t", "o", "k", "e", "n">>,
     <<"s", "e", "c", "r", "e", "t">>, <<"k", "e", "y">>, <<"a", "u", "t", "h">>}

Redacted == <<"[", "R", "E", "D", "A", "C", "T", "E", "D", "]">>

\* the key test without toLowerCase
SensitiveAsWritten(key) == \E field \in SensitiveFields : Includes(key, field)

\* sensitiveFields.some((field) => lowercaseKey.includes(field))
Sensitive(key) == \E field \in SensitiveFields : Includes(ToLowerCase(key), field)

\* sanitizeObject: a sensitive member becomes "[REDACTED]", an object or array
\* member is sanitized in turn, any other member is copied
RECURSIVE SanitizeObject(_)
SanitizeObject(obj) ==
    [i \in 1..Len(obj) |->
        IF Sensitive(obj[i].k) THEN [k |-> obj[i].k, t |-> "scalar", v |-> Redacted]
        ELSE IF obj[i].t \in {"object", "array"}
             THEN [obj[i] EXCEPT !.v = SanitizeObject(obj[i].v)]
             ELSE obj[i]]

\* the request body as the handlers destructure it: the members they read, by name
KeyOf ==
    [name |-> <<"n", "a", "m", "e">>, email |-> <<"e", "m", "a", "i", "l">>,
     password |-> <<"p", "a", "s", "s", "w", "o", "r", "d">>, type |-> <<"t", "y", "p", "e">>,
     action |-> <<"a", "c", "t", "i", "o", "n">>,
     entity_type |-> <<"e", "n", "t", "i", "t", "y", "_", "t", "y", "p", "e">>,
     new_value |-> <<"n", "e", "w", "_", "v", "a", "l", "u", "e">>]

\* a later member of the same key wins, as in JSON.parse
AsBody(json) ==
    LET last(f) == CHOOSE i \in 1..Len(json) :
                      /\ json[i].k = KeyOf[f]
                      /\ \A j \in 1..Len(json) : json[j].k = KeyOf[f] => j <= i
    IN  [f \in {g \in DOMAIN KeyOf : \E i \in 1..Len(json) : json[i].k = KeyOf[g]} |->
            json[last(f)].v]

\* logApiCall for each patched response method the answer passes through (json,
\* send and end for res.json; send and end for res.send), appended to the store
\* the handler left; a failing Log.create is caught and logged to the console
Audit(method, url, json, store, available) ==
    LET path == ReqPath(url)
        calls == IF resp'.status = 204 THEN <<"send", "end">>
                 ELSE <<"json", "send", "end">>
        entry(via) ==
            [st |-> "live", user_id |-> resp'.caller,
             action |-> <<"api", DetermineAction(method, path)>>,
             entity_type |-> DetermineEntityType(path),
             body |-> IF json # <<>> THEN SanitizeObject(json) ELSE <<>>,
             status |-> resp'.status, via |-> via]
    IN  IF ShouldSkipLogging(method, path) \/ ~available THEN logs' = store
        ELSE /\ Len(store) + Len(calls) <= MaxLogs
             /\ logs' = store \o [i \in 1..Len(calls) |-> entry(calls[i])]

\* login: the answer only
Login(body) ==
    LET Answer(status, data) ==
            Reply(Response("login", NoId, NoId, status, {}, data, body))
    IN  /\ UNCHANGED <<users, categories, tags, goals, transactions, inflight>>
        /\ IF ~GivenStr(body, "email") \/ ~GivenStr(body, "password")
           THEN Answer(400, NoData)
           ELSE IF \E u \in DOMAIN users :
                      /\ LiveUser(u) /\ users[u].email = body.email
                      /\ users[u].password = Hash(body.password)
           THEN Answer(200, [token |-> CHOOSE u \in DOMAIN users :
                                          LiveUser(u) /\ users[u].email = body.email])
           ELSE Answer(401, NoData)

\* a request no route matches: the 404 of the application
NotFound(json) ==
    /\ UNCHANGED <<users, categories, tags, goals, transactions, inflight>>
    /\ Reply(Response("notFound", NoId, NoId, 404, {}, NoData, json))

\* LogController.create: the answer and the store it leaves
LogCreate(c, body, available) ==
    LET user == Authenticate(c)
        Answer(status, store) ==
            [resp |-> Response("logCreate", c, NoId, status, {}, NoData, body),
             users |-> users, logs |-> store]
    IN  IF ~GivenStr(body, "action") \/ ~GivenStr(body, "entity_type")
        THEN Answer(400, logs)
        ELSE IF ~available THEN Answer(500, logs)
        ELSE [resp |-> Response("logCreate", c, Len(logs) + 1, 201,
                                {[kind |-> "log", id |-> Len(logs) + 1,
                                  user_id |-> user.id]}, NoData, body),
              users |-> users,
              logs |-> Append(logs,
                              [st |-> "live", user_id |-> user.id,
                               action |-> Trim(body.action),
                               entity_type |-> Trim(body.entity_type),
                               body |-> IF Has(body, "new_value")
                                        THEN body.new_value ELSE <<>>,
                               status |-> 0, via |-> "create"])]

\* LogController.update: always 405
LogUpdate(c, id, body) ==
    [resp |-> Response("logUpdate", c, id, 405, {}, NoData, body), users |-> users,
     logs |-> logs]

\* a delete that does not look at the caller's type
LogDeleteAllowedAny(user) == TRUE

\* only administrators can delete logs
LogDeleteAllowed(user) == user.type = ADMIN

\* LogController.delete
LogDelete(c, id, available) ==
    LET Answer(status, store) ==
            [resp |-> Response("logDelete", c, id, status, {}, NoData, <<>>),
             users |-> users, logs |-> store]
    IN  IF ~LogDeleteAllowed(Authenticate(c)) THEN Answer(403, logs)
        ELSE IF ~available THEN Answer(500, logs)
        ELSE IF ~Live(logs, id) THEN Answer(404, logs)
        ELSE Answer(204, [logs EXCEPT ![id].st = "deleted"])

\* LogController.getAll: a regular caller's own entries, every entry for the others
LogGetAll(c, available) ==
    LET user == Authenticate(c)
        rows == {id \in LiveIds(logs) : user.type = REGULAR => logs[id].user_id = user.id}
    IN  IF ~available
        THEN [resp |-> Response("logGetAll", c, NoId, 500, {}, NoData, <<>>),
              users |-> users, logs |-> logs]
        ELSE [resp |-> Response("logGetAll", c, NoId, 200,
                                {[kind |-> "log", id |-> id, user_id |-> logs[id].user_id] :
                                    id \in rows}, NoData, <<>>),
              users |-> users, logs |-> logs]

\* LogController.getById: the entry is looked up by id alone; a regular caller is
\* then refused an entry of another user
LogGetById(c, id, available) ==
    LET user == Authenticate(c)
        Answer(status, rows) ==
            [resp |-> Response("logGetById", c, id, status, rows, NoData, <<>>),
             users |-> users, logs |-> logs]
    IN  IF ~available THEN Answer(500, {})
        ELSE IF ~Live(logs, id) THEN Answer(404, {})
        ELSE IF user.type = REGULAR /\ logs[id].user_id # user.id THEN Answer(403, {})
        ELSE Answer(200, {[kind |-> "log", id |-> id, user_id |-> logs[id].user_id]})

\* a failed logApiCall that reaches the client as a 500
AfterAuditThrown(answer, failed) ==
    IF failed THEN [answer EXCEPT !.status = 500, !.rows = {}, !.data = NoData]
    ELSE answer

\* the patched res.json and res.send do not await logApiCall, which catches its
\* errors: the handler's answer goes out as it is
AfterAudit(answer, failed) == answer

\* a route answering under the middleware: the handler's answer and writes, then
\* the log entries
Routed(method, url, json, available, result) ==
    /\ UNCHANGED <<categories, tags, goals, transactions, inflight>>
    /\ Len(result.users) <= MaxUsers
    /\ users' = result.users
    /\ Reply(AfterAudit(result.resp,
                        ~available /\ ~ShouldSkipLogging(method, ReqPath(url))))
    /\ Audit(method, url, json, result.logs, available)

(***************************************************************************)
(* Requests through the log middleware                                      *)
(***************************************************************************)
Urls ==
    LET api == <<"/", "a", "p", "i">>
    IN  [register |-> api \o <<"/", "a", "u", "t", "h", "/", "r", "e", "g", "i", "s", "t", "e", "r">>,
         login |-> api \o <<"/", "a", "u", "t", "h", "/", "l", "o", "g", "i", "n">>,
         logs |-> api \o <<"/", "l", "o", "g", "s">>,
         health |-> api \o <<"/", "h", "e", "a", "l", "t", "h">>]

\* /api/logs/:id
LogUrl(id) == Urls.logs \o <<"/", <<"1", "2", "3", "4", "5", "6", "7">>[id]>>

Scalar(key, value) == [k |-> key, t |-> "scalar", v |-> value]

AccountJson ==
    <<Scalar(KeyOf.name, <<"n">>), Scalar(KeyOf.email, Email("n")),
      Scalar(KeyOf.password, <<"s", "e", "c", "r", "e", "t">>)>>

RegisterJson ==
    {AccountJson,
     AccountJson \o
        <<Scalar(<<"a", "p", "i", "K", "e", "y">>, <<"k">>),
          [k |-> <<"i", "t", "e", "m", "s">>, t |-> "array",
           v |-> <<[k |-> <<"0">>, t |-> "object",
                    v |-> <<Scalar(<<"P">> \o Tail(KeyOf.password), <<"p">>),
                            Scalar(<<"n", "o", "t", "e">>, <<"o">>)>>]>>]>>,
     <<Scalar(KeyOf.email, Email("n"))>>}

LoginJson ==
    {<<Scalar(KeyOf.email, Email("a")),
       Scalar(KeyOf.password, <<"s", "e", "c", "r", "e", "t">>)>>,
     <<Scalar(KeyOf.email, Email("a")), Scalar(KeyOf.password, <<"x">>)>>}

LogJson ==
    {<<Scalar(KeyOf.action, <<"a">>), Scalar(KeyOf.entity_type, <<"t">>),
       [k |-> KeyOf.new_value, t |-> "object",
        v |-> <<Scalar(KeyOf.password, <<"p", "w">>), Scalar(<<"n", "o", "t", "e">>, <<"o">>)>>]>>,
     <<Scalar(KeyOf.action, <<"a">>)>>}

LogCallers == {1, 2, 4}

LogIds == 1..MaxLogs

\* the ids GET /api/logs/:id is asked for: the first entry and a later one
LogGetIds == {1, 4}

NextLog ==
    \/ \E json \in RegisterJson, available \in BOOLEAN :
          Routed("POST", Urls.register, json, available, RegisterResult(AsBody(json)))
    \/ \E json \in LoginJson, available \in BOOLEAN :
          /\ Login(AsBody(json))
          /\ Audit("POST", Urls.login, json, logs, available)
    \/ \E json \in LogJson, available \in BOOLEAN :
          NotFound(json) /\ Audit("POST", Urls.health, json, logs, available)
    \/ \E cred \in Credentials(LogCallers), json \in LogJson, available \in BOOLEAN :
          /\ Authenticated(cred)
          /\ Routed("POST", Urls.logs, json, available,
                      LogCreate(cred.id, AsBody(json), available))
    \/ \E cred \in Credentials(LogCallers), json \in LogJson, available \in BOOLEAN :
          /\ Authenticated(cred)
          /\ Routed("PUT", LogUrl(1), json, available,
                      LogUpdate(cred.id, 1, AsBody(json)))
    \/ \E cred \in Credentials(LogCallers), id \in LogIds, available \in BOOLEAN :
          /\ Authenticated(cred)
          /\ Routed("DELETE", LogUrl(id), <<>>, available,
                      LogDelete(cred.id, id, available))
    \/ \E cred \in Credentials(LogCallers), available \in BOOLEAN :
          /\ Authenticated(cred)
          /\ Routed("GET", Urls.logs, <<>>, available, LogGetAll(cred.id, available))
    \/ \E cred \in Credentials(LogCallers), id \in LogGetIds, available \in BOOLEAN :
          /\ Authenticated(cred)
          /\ Routed("GET", LogUrl(id), <<>>, available,
                      LogGetById(cred.id, id, available))
    \/ \E cred \in Credentials(LogCallers), available \in BOOLEAN :
          /\ Unauthorized(cred) /\ UNCHANGED inflight
          /\ Audit("DELETE", LogUrl(1), <<>>, logs, available)

SpecLog == Init /\ [][NextLog]_vars

(***************************************************************************)
(* Properties of the accounts                                               *)
(***************************************************************************)
\* C13: DELETE /users/:id and DELETE /users/me remove the user only when no
\* transaction, category or goal has its id as user_id; otherwise the answer is 400
\* with the blocking counts and the user stays, so no transaction, category or goal
\* is ever owned by a user that does not exist
C13_OwnerOutlivesData ==
    [][/\ resp'.op \in {"userDelete", "userDeleteSelf"}
          => LET id == IF resp'.op = "userDelete" THEN resp'.target ELSE resp'.caller
                 owned(table) == {r \in LiveIds(table) : table[r].user_id = id}
                 total == Cardinality(owned(transactions)) + Cardinality(owned(categories))
                             + Cardinality(owned(goals))
             IN  /\ users' # users
                       => /\ total = 0
                          /\ resp'.status = 204
                          /\ users' = [users EXCEPT ![id].st = "deleted"]
                 /\ (total > 0 /\ resp'.status \notin {403, 404})
                       => /\ resp'.status = 400
                          /\ resp'.data =
                                [transactions |-> Cardinality(owned(transactions)),
                                 categories |-> Cardinality(owned(categories)),
                                 goals |-> Cardinality(owned(goals)), total |-> total]
                          /\ UNCHANGED <<users, categories, goals, transactions>>
       /\ \A t \in LiveIds(transactions') : users'[transactions'[t].user_id].st = "live"
       /\ \A k \in LiveIds(categories') : users'[categories'[k].user_id].st = "live"
       /\ \A g \in LiveIds(goals') : users'[goals'[g].user_id].st = "live"]_vars

\* a delete of an account that owns rows has been refused with the counts
C13_Witness ==
    /\ resp.op \in {"userDelete", "userDeleteSelf"} /\ resp.status = 400
    /\ resp.data.total > 0
    /\ \E k \in LiveIds(categories) : categories[k].user_id = resp.caller
    /\ LiveUser(resp.caller)

\* C14: every stored viewer has a viewable_user_id that names a stored user whose
\* type is not viewer
C14_ViewerHasDelegate ==
    \A u \in DOMAIN users :
        (LiveUser(u) /\ users[u].type = VIEWER)
           => /\ Truthy(users[u].viewable_user_id)
              /\ LiveUser(users[u].viewable_user_id)
              /\ users[users[u].viewable_user_id].type # VIEWER

C16_AuthenticatedOnly ==
    [][/\ resp'.op \in {"userCreate", "userUpdate", "userDelete", "userDeleteSelf"}
          => /\ resp'.caller \in DOMAIN users
             /\ users[resp'.caller].st = "live"
       /\ resp'.op = "authenticate"
          => /\ resp'.status = 401
             /\ users' = users
             /\ \/ resp'.req.kind # "valid"
                \/ resp'.req.id \notin DOMAIN users
                \/ users[resp'.req.id].st # "live"
       /\ (resp'.op = "userDelete" /\ resp'.target # resp'.caller)
          => (resp'.status = 403 <=> users[resp'.caller].type # ADMIN)
       /\ (resp'.op = "userCreate" /\ resp'.status = 201)
          => users[resp'.caller].type \in {ADMIN, REGULAR}]_vars

\* the token of a deleted user has been answered 401, in a state where an account
\* seeded as regular is stored as admin
C16_Witness ==
    /\ resp.op = "authenticate" /\ resp.status = 401 /\ resp.req.kind = "valid"
    /\ resp.req.id \in DOMAIN users /\ users[resp.req.id].st = "deleted"
    /\ \E u \in {2, 3} : users[u].type = ADMIN

(***************************************************************************)
(* Properties of the audit log                                              *)
(***************************************************************************)
\* the entries a step adds to the store
Added == {i \in DOMAIN logs' : i > Len(logs)}

\* C17: the middleware writes no entry for a GET request, for /auth/login, for a
\* request to the log endpoints (POST /api/logs, PUT and DELETE /api/logs/:id) or
\* for a health path
C17_NoEntryForSkipped ==
    [][resp'.op \in {"logGetAll", "login", "notFound", "logCreate", "logUpdate", "logDelete"}
          => \A i \in Added : logs'[i].via = "create"]_vars

\* a member whose key, lower-cased, contains a sensitive word and whose value is not
\* the redaction marker, at any depth
RECURSIVE Leaks(_)
Leaks(obj) ==
    \E i \in 1..Len(obj) :
        \/ /\ \E field \in SensitiveFields : Includes(ToLowerCase(obj[i].k), field)
           /\ ~(obj[i].t = "scalar" /\ obj[i].v = Redacted)
        \/ /\ \A field \in SensitiveFields : ~Includes(ToLowerCase(obj[i].k), field)
           /\ obj[i].t \in {"object", "array"}
           /\ Leaks(obj[i].v)

\* out has the members of json, the same but for the sensitive ones
RECURSIVE SameElsewhere(_, _)
SameElsewhere(json, out) ==
    /\ Len(out) = Len(json)
    /\ \A i \in 1..Len(json) :
          /\ out[i].k = json[i].k
          /\ (\A field \in SensitiveFields : ~Includes(ToLowerCase(json[i].k), field))
                => /\ out[i].t = json[i].t
                   /\ IF json[i].t = "scalar" THEN out[i].v = json[i].v
                      ELSE SameElsewhere(json[i].v, out[i].v)

C20_AppendOnly ==
    [][/\ resp'.op = "logUpdate" => (resp'.status = 405 /\ logs' = logs)
       /\ (resp'.op = "logDelete" /\ users[resp'.caller].type # ADMIN)
          => (resp'.status = 403 /\ logs' = logs)
       /\ \A i \in DOMAIN logs :
             \/ logs'[i] = logs[i]
             \/ /\ resp'.op = "logDelete" /\ resp'.target = i
                /\ users[resp'.caller].type = ADMIN
                /\ logs'[i] = [logs[i] EXCEPT !.st = "deleted"]]_vars

\* stored entries are never modified, and one is removed only by an admin's delete
StoredEntriesKept ==
    [][/\ Len(logs') >= Len(logs)
       /\ \A i \in DOMAIN logs :
             \/ logs'[i] = logs[i]
             \/ /\ resp'.op = "logDelete" /\ resp'.target = i /\ resp'.status = 204
                /\ users[resp'.caller].type = ADMIN
                /\ logs'[i] = [logs[i] EXCEPT !.st = "deleted"]]_vars

(***************************************************************************)
(* Requests on /transactions?summary=true                                   *)
(***************************************************************************)
MaxSummaryCategories == 2
MaxSummaryTransactions == 2

InitSummary ==
    /\ users = SeedUsers
    /\ categories = [id \in 1..MaxSummaryCategories |-> BlankCategory("unused")]
    /\ tags = [id \in TagIds |-> BlankTag("unused")]
    /\ goals = [id \in GoalIds |-> BlankGoal("unused")]
    /\ transactions = [id \in 1..MaxSummaryTransactions |-> BlankTransaction("unused")]
    /\ logs = <<>>
    /\ inflight = <<>>
    /\ resp = Response("none", NoId, NoId, 0, {}, NoData, <<>>)

SummaryCallers == {1, 2, 3}

SummaryCategoryBodies == {[name |-> <<"c">>, target_user_id |-> 3]}

SummaryTransactionBodies ==
    {[amount |-> 7525, type |-> <<"expense">>, description |-> <<"d">>, category_id |-> 1],
     [amount |-> 30, type |-> <<"income">>, description |-> <<"d">>, category_id |-> 1,
      date |-> 1],
     [amount |-> 10, type |-> <<"expense">>, description |-> <<"d">>, category_id |-> 2,
      date |-> 3, target_user_id |-> 3]}

SummaryQueries ==
    {<<>>, [user_id |-> 3], [startDate |-> 2], [endDate |-> 2]}

NextSummary ==
    \/ \E c \in SummaryCallers, body \in SummaryCategoryBodies : CategoryCreate(c, body)
    \/ \E c \in SummaryCallers, body \in SummaryTransactionBodies :
          TransactionCreate(c, body)
    \/ \E c \in SummaryCallers, id \in 1..MaxSummaryTransactions :
          TransactionDelete(c, id)
    \/ \E c \in SummaryCallers, q \in SummaryQueries : TransactionGetSummary(c, q)

SpecSummary == InitSummary /\ [][NextSummary]_vars

(***************************************************************************)
(* Requests on /goals/:id/progress over stored goals                        *)
(***************************************************************************)
\* the amounts of the stored goal, in cents
ProgressTargets == {20, 400, 900, 1000, 5000}

ProgressCurrents == {0, 15, 100, 600, 900, 1000, 1250, 5000}

\* a goal of user 2 as POST /goals and addProgress leave it
InitProgress ==
    /\ users = SeedUsers
    /\ categories = [id \in CategoryIds |-> BlankCategory("unused")]
    /\ tags = [id \in TagIds |-> BlankTag("unused")]
    /\ \E target \in ProgressTargets, current \in ProgressCurrents :
          goals = [id \in GoalIds |->
                     [BlankGoal("live") EXCEPT !.user_id = 2, !.name = <<"g">>,
                                               !.target_amount = target,
                                               !.current_amount = current,
                                               !.is_completed = current >= target]]
    /\ transactions = [id \in TransactionIds |-> BlankTransaction("unused")]
    /\ logs = <<>>
    /\ inflight = <<>>
    /\ resp = Response("none", NoId, NoId, 0, {}, NoData, <<>>)

NextProgress ==
    \/ \E c \in Callers, id \in GoalIds : GoalGetProgress(c, id)
    \/ \E c \in Callers, id \in GoalIds : GoalGetById(c, id)

SpecProgress == InitProgress /\ [][NextProgress]_vars

(***************************************************************************)
(* Renames: PUT /categories/:id and PUT /tags/:id, and the requests that    *)
(* give and change names                                                    *)
(***************************************************************************)
\* the rename check left out
CategoryNameConflictSkipped(id, name) == FALSE

\* Category.findOne({ where: { name, user_id: existingCategory.user_id, id: { [Op.ne] } } })
CategoryNameConflict(id, name) ==
    \E k \in LiveIds(categories) \ {id} :
        /\ categories[k].name = name
        /\ categories[k].user_id = categories[id].user_id

CategoryUpdate(c, id, body) ==
    LET user == Authenticate(c)
        existingCategory == categories[id]
        updateData == Without(body, {"target_user_id", "user_id"})
        Fail(status) ==
            /\ Reply(Response("categoryUpdate", c, id, status, {}, NoData, body))
            /\ UNCHANGED categories
    IN  /\ TxFrame
        /\ UNCHANGED <<tags, transactions>>
        /\ IF ~(Live(categories, id) /\ CategoryBuildUserFilter(user, id)) THEN Fail(404)
           ELSE IF /\ GivenStr(body, "name")
                   /\ body.name # existingCategory.name
                   /\ CategoryNameConflict(id, body.name)
           THEN Fail(400)
           ELSE /\ categories' = [categories EXCEPT ![id] =
                                    UpdateRow(existingCategory, updateData)]
                /\ Reply(Response("categoryUpdate", c, id, 200,
                                  {View("category", categories', id)}, NoData, body))

TagUpdate(c, id, body) ==
    LET user == Authenticate(c)
        existingTag == tags[id]
        updateData ==
            IF GivenStr(body, "name") THEN [name |-> ToLowerCase(body.name)] ELSE <<>>
        Fail(status) ==
            /\ Reply(Response("tagUpdate", c, id, status, {}, NoData, body))
            /\ UNCHANGED tags
    IN  /\ TxFrame
        /\ UNCHANGED <<categories, transactions>>
        /\ IF ~(Live(tags, id) /\ TagBuildUserFilter(user, id)) THEN Fail(404)
           ELSE IF user.type = REGULAR /\ existingTag.user_id # user.id THEN Fail(403)
           ELSE IF /\ GivenStr(body, "name")
                   /\ ToLowerCase(body.name) # existingTag.name
                   /\ \E t \in LiveIds(tags) \ {id} :
                         /\ tags[t].name = ToLowerCase(body.name)
                         /\ tags[t].user_id = existingTag.user_id
           THEN Fail(400)
           ELSE /\ tags' = [tags EXCEPT ![id] = UpdateRow(existingTag, updateData)]
                /\ Reply(Response("tagUpdate", c, id, 200,
                                  {View("tag", tags', id)}, NoData, body))

MaxNamed == 2

NamedIds == 1..MaxNamed

\* two free rows in each named table
InitNames ==
    /\ users = SeedUsers
    /\ categories = [id \in NamedIds |-> BlankCategory("unused")]
    /\ tags = [id \in NamedIds |-> BlankTag("unused")]
    /\ goals = [id \in NamedIds |-> BlankGoal("unused")]
    /\ transactions = [id \in TransactionIds |-> BlankTransaction("unused")]
    /\ logs = <<>>
    /\ inflight = <<>>
    /\ resp = Response("none", NoId, NoId, 0, {}, NoData, <<>>)

\* the admin and a regular user
NameCallers == {1, 2}

CategoryNameBodies == {[name |-> <<"c">>], [name |-> <<"d">>, target_user_id |-> 2]}

CategoryRenameBodies == {[name |-> <<"c">>, user_id |-> 1]}

TagNameBodies == {[name |-> <<"A">>], [name |-> <<"b">>, target_user_id |-> 2]}

TagRenameBodies == {[name |-> <<"A">>]}

GoalNameBodies ==
    {[name |-> <<"g">>, target_amount |-> 7],
     [name |-> <<"h", " ">>, target_amount |-> 7, target_user_id |-> 2]}

GoalRenameBodies == {[name |-> <<" ", "g">>, user_id |-> 1]}

NextNames ==
    \/ \E c \in NameCallers, body \in CategoryNameBodies : CategoryCreate(c, body)
    \/ \E c \in NameCallers, id \in NamedIds, body \in CategoryRenameBodies :
          CategoryUpdate(c, id, body)
    \/ \E c \in NameCallers, body \in TagNameBodies : TagCreate(c, body)
    \/ \E c \in NameCallers, id \in NamedIds, body \in TagRenameBodies :
          TagUpdate(c, id, body)
    \/ \E c \in NameCallers, body \in GoalNameBodies : GoalCreate(c, body)
    \/ \E c \in NameCallers, id \in NamedIds, body \in GoalRenameBodies :
          GoalUpdate(c, id, body)

SpecNames == InitNames /\ [][NextNames]_vars

(***************************************************************************)
(* Overlapping addProgress requests: each await of the handler is a step,   *)
(* each request has its own transaction on a pooled connection              *)
(***************************************************************************)
MaxInflight == 2

\* an update that matches the row only while it still holds the amount read
StaleVersioned(k) ==
    goals[inflight[k].target].current_amount # inflight[k].goal.current_amount

\* goal.update(updateData, { transaction }): UPDATE ... WHERE id, with no lock taken
\* by the read and no version column, so a row changed since the read still matches
Stale(k) == FALSE

\* up to Goal.findOne: the checks on the row as committed at that moment; a request
\* that passes them holds the row it read
ProgressRead(c, id, body) ==
    LET user == Authenticate(c)
        Fail(status) ==
            /\ Reply(Response("goalAddProgress", c, id, status, {}, NoData, body))
            /\ UNCHANGED inflight
    IN  /\ UNCHANGED <<users, categories, tags, goals, transactions, logs>>
        /\ IF InvalidAmount(body) THEN Fail(400)
           ELSE IF ~GoalFindOne(user, id) THEN Fail(404)
           ELSE IF AlreadyCompleted(goals[id]) THEN Fail(400)
           ELSE /\ Len(inflight) < MaxInflight
                /\ inflight' = Append(inflight,
                                      [pc |-> "update", caller |-> c, target |-> id,
                                       amount |-> body.amount, goal |-> goals[id],
                                       status |-> 0])
                /\ UNCHANGED resp

\* goal.update and transaction.commit: the amount read plus the amount asked,
\* is_completed only when that sum reaches the target read
ProgressCommit(k) ==
    LET r == inflight[k]
        reached == TargetReached(r.goal.current_amount, r.amount, r.goal.target_amount)
    IN  /\ r.pc = "update"
        /\ UNCHANGED <<users, categories, tags, transactions, logs, resp>>
        /\ IF Stale(k)
           THEN /\ inflight' = [inflight EXCEPT ![k].pc = "failed"]
                /\ UNCHANGED goals
           ELSE /\ NewCurrentAmount(r.goal.current_amount, r.amount) <= MaxCurrent
                /\ goals' = [goals EXCEPT
                               ![r.target].current_amount =
                                   NewCurrentAmount(r.goal.current_amount, r.amount),
                               ![r.target].is_completed = IF reached THEN TRUE ELSE @]
                /\ inflight' = [inflight EXCEPT ![k].pc = "reload"]

\* Goal.findByPk and res.json after the commit, the catch block's 500 otherwise
ProgressAnswer(k) ==
    LET r == inflight[k]
        status == IF r.pc = "reload" THEN 200 ELSE 500
    IN  /\ r.pc \in {"reload", "failed"}
        /\ UNCHANGED <<users, categories, tags, goals, transactions, logs>>
        /\ inflight' = [inflight EXCEPT ![k].pc = "done", ![k].status = status]
        /\ Reply(Response("goalAddProgress", r.caller, r.target, status,
                          IF status = 200 THEN {View("goal", goals, r.target)} ELSE {},
                          IF status = 200
                          THEN [before |-> r.goal,
                                completed |-> TargetReached(r.goal.current_amount,
                                                            r.amount,
                                                            r.goal.target_amount),
                                progress_added |-> r.amount]
                          ELSE NoData,
                          [amount |-> r.amount]))

RaceCallers == {1, 2}

RaceGoalBodies ==
    {[name |-> <<"a">>, target_amount |-> 7],
     [name |-> <<"b">>, target_amount |-> 12, current_amount |-> 1]}

RaceBodies == {[amount |-> 0], [amount |-> 3], [amount |-> 6]}

NextRace ==
    \/ \E c \in RaceCallers, body \in RaceGoalBodies : GoalCreate(c, body)
    \/ \E c \in RaceCallers, id \in GoalIds, body \in RaceBodies : ProgressRead(c, id, body)
    \/ \E k \in DOMAIN inflight : ProgressCommit(k)
    \/ \E k \in DOMAIN inflight : ProgressAnswer(k)

SpecRace == Init /\ [][NextRace]_vars

(***************************************************************************)
(* Units of work: a handler's try / commit / catch under failing calls      *)
(***************************************************************************)
\* the call of a handler that rejects: none, sequelize.transaction(), the write
\* inside the transaction, the reload after commit
Faults == {"none", "begin", "write", "reload"}

\* what the framework does with a handler whose promise rejects: the release of
\* Express is not part of the sources; one line of releases ignores the promise
\* and the request is never answered, the other hands the error to the default
\* error handler, which answers 500
Frameworks == {"ignores", "forwards"}

\* no response was sent
Unanswered == 0

\* the handler's promise rejects: sequelize.transaction() throws before the try, or
\* `await transaction.rollback()`, the first statement of the catch block, throws
\* because the transaction is finished
Rejected(answer, framework) ==
    [answer EXCEPT !.status = IF framework = "forwards" THEN 500 ELSE Unanswered,
                   !.rows = {}, !.data = NoData]

\* GoalController.create with one failing call
GoalCreateUnit(c, body, fault, framework) ==
    LET plain == GoalCreateResult(c, body)
        wrote == plain.resp.status = 201
        Answer(r, table) == Reply(r) /\ goals' = table
    IN  /\ GoalFrame
        /\ GoalCreateFits(c, body)
        /\ IF fault = "none" \/ Authenticate(c).type = VIEWER
           THEN Answer(plain.resp, plain.goals)
           ELSE IF fault = "begin" THEN Answer(Rejected(plain.resp, framework), goals)
           ELSE IF ~wrote THEN Answer(plain.resp, plain.goals)
           ELSE IF fault = "write"
           THEN Answer([plain.resp EXCEPT !.status = 500, !.rows = {}], goals)
           ELSE Answer(Rejected(plain.resp, framework), plain.goals)

\* the call of register that throws: none, User.create, jwt.sign
RegisterFaults == {"none", "write", "sign"}

\* register with one failing call: no transaction, the catch block answers 500
RegisterUnit(body, fault) ==
    LET plain == RegisterResult(body)
        wrote == plain.resp.status = 201
        failed == [plain.resp EXCEPT !.status = 500, !.rows = {}]
    IN  /\ UNCHANGED <<categories, tags, goals, transactions, logs, inflight>>
        /\ Len(plain.users) <= MaxUsers
        /\ IF fault = "none" \/ ~wrote THEN users' = plain.users /\ Reply(plain.resp)
           ELSE IF fault = "write" THEN UNCHANGED users /\ Reply(failed)
           ELSE users' = plain.users /\ Reply(failed)

UnitGoalBodies ==
    {[name |-> <<"a">>, target_amount |-> 7],
     [name |-> <<"a">>, target_amount |-> 7, target_user_id |-> 3],
     [name |-> <<"a">>]}

NextUnit ==
    \/ \E body \in RegisterBodies, fault \in RegisterFaults : RegisterUnit(body, fault)
    \/ \E c \in Callers, body \in UnitGoalBodies, fault \in Faults,
            framework \in Frameworks : GoalCreateUnit(c, body, fault, framework)
    \/ \E c \in Callers, id \in GoalIds : GoalDelete(c, id)
    \/ \E c \in Callers, body \in CategoryCreateBodies : CategoryCreate(c, body)
    \/ \E c \in Callers, body \in TransactionCreateBodies : TransactionCreate(c, body)

SpecUnit == Init /\ [][NextUnit]_vars

(***************************************************************************)
(* Properties of by-id requests                                             *)
(***************************************************************************)
\* the by-id operations and the table each one addresses
ByIdTable ==
    [goalGetById |-> "goals", goalUpdate |-> "goals", goalDelete |-> "goals",
     goalAddProgress |-> "goals",
     transactionGetById |-> "transactions", transactionUpdate |-> "transactions",
     transactionDelete |-> "transactions",
     categoryDelete |-> "categories", tagDelete |-> "tags",
     logGetById |-> "logs", logDelete |-> "logs"]

\* the id names a stored row that belongs to another user than the caller
ForeignRow(table, caller, id) ==
    LET rows == CASE table = "goals" -> goals [] table = "transactions" -> transactions
                  [] table = "categories" -> categories [] table = "tags" -> tags
                  [] OTHER -> logs
    IN  Live(rows, id) /\ rows[id].user_id \in (DOMAIN users) \ {caller}

\* the answer the same request gets when it names an id that does not exist
AbsentAnswer(op, caller) ==
    CASE op = "logGetById" -> LogGetById(caller, MaxLogs + 1, TRUE).resp
      [] op = "logDelete" -> LogDelete(caller, MaxLogs + 1, TRUE).resp
      [] OTHER -> Response(op, caller, NoId, 404, {}, NoData, <<>>)

\* C21: a by-id request of a non-admin caller that names a row of another user gets
\* the status and body of the same request naming an id that does not exist
C21_ForeignLooksAbsent ==
    [][(/\ resp'.op \in DOMAIN ByIdTable
        /\ resp'.caller \in DOMAIN users /\ users[resp'.caller].type # ADMIN
        /\ ForeignRow(ByIdTable[resp'.op], resp'.caller, resp'.target)
        /\ resp'.status # 500)
          => /\ resp'.status = AbsentAnswer(resp'.op, resp'.caller).status
             /\ resp'.rows = AbsentAnswer(resp'.op, resp'.caller).rows
             /\ resp'.data = AbsentAnswer(resp'.op, resp'.caller).data]_vars

(***************************************************************************)
(* Properties of the units of work                                          *)
(***************************************************************************)
StoreUnchanged == UNCHANGED <<users, categories, tags, goals, transactions>>

\* C22: a write handler that answers with an error status (4xx or 5xx) leaves the
\* relational store as it was before the request
C22_ErrorMeansRolledBack ==
    [][resp'.status >= 400 => StoreUnchanged]_vars

\* C29: every request that reaches a handler is answered, whichever call fails
C29_AlwaysAnswered ==
    [][resp'.op \in {"register", "goalCreate", "goalDelete", "categoryCreate",
                     "transactionCreate"}
          => resp'.status # Unanswered]_vars

(***************************************************************************)
(* Properties of the transaction summary                                    *)
(***************************************************************************)
\* the non-deleted transactions of one type in the scope and date range of a
\* summary request
InSummary(caller, query, type) ==
    {id \in DOMAIN transactions :
        /\ transactions[id].st = "live" /\ transactions[id].type = type
        /\ users[caller].type = REGULAR => transactions[id].user_id = caller
        /\ (users[caller].type = ADMIN /\ Has(query, "user_id"))
              => transactions[id].user_id = query.user_id
        /\ Has(query, "startDate") => transactions[id].date >= query.startDate
        /\ Has(query, "endDate") => transactions[id].date <= query.endDate}

RECURSIVE CentsOf(_)
CentsOf(ids) ==
    IF ids = {} THEN 0
    ELSE LET id == CHOOSE i \in ids : \A j \in ids : i <= j
         IN  transactions[id].amount + CentsOf(ids \ {id})

\* C23: for a regular or admin caller the summary gives, per type, the sum of the
\* amounts and the number of the non-deleted transactions in scope and date
\* range (0 and 0 without any), and the balance is income.total - expense.total
C23_SummaryTotals ==
    [][(resp'.op = "transactionGetSummary" /\ users[resp'.caller].type # VIEWER)
          => LET income == InSummary(resp'.caller, resp'.req, <<"income">>)
                 expense == InSummary(resp'.caller, resp'.req, <<"expense">>)
             IN  /\ resp'.status = 200
                 /\ resp'.data.income.count = Cardinality(income)
                 /\ resp'.data.expense.count = Cardinality(expense)
                 /\ resp'.data.income.total = ParseFloat(CentsOf(income))
                 /\ resp'.data.expense.total = ParseFloat(CentsOf(expense))
                 /\ income = {} => resp'.data.income.total = FZero
                 /\ resp'.data.balance =
                       FloatSub(resp'.data.income.total, resp'.data.expense.total)]_vars

\* user 3 has one expense of 75.25 in a category the admin made for them, another
\* user has a transaction too, and the summary of user 3 is expense 75.25 and 1,
\* income 0 and 0, balance -75.25
C23_Witness ==
    /\ resp.op = "transactionGetSummary" /\ resp.caller = 3 /\ resp.req = <<>>
    /\ \E id \in DOMAIN transactions :
          Live(transactions, id) /\ transactions[id].user_id # 3
    /\ resp.data.expense = [total |-> ParseFloat(7525), count |-> 1]
    /\ resp.data.income = [total |-> FZero, count |-> 0]
    /\ resp.data.balance = [neg |-> TRUE, abs |-> ParseFloat(7525)]

(***************************************************************************)
(* Properties of getProgress                                                *)
(***************************************************************************)
\* C24: getProgress answers with four milestones at 25, 50, 75 and 100 percent, each
\* achieved exactly when the number of current_amount is at least the milestone
\* amount, so a milestone is achieved only if every lower one is, and
\* next_milestone is the lowest unachieved one, null exactly when
\* current_amount is at least target_amount
C24_MilestonesNumeric ==
    (resp.op = "goalGetProgress" /\ resp.status = 200)
        => LET goal == goals[resp.target]
               reached(i) ==
                   IF i < 4
                   THEN FloatGeq(ParseFloat(goal.current_amount),
                                 TimesFraction(goal.target_amount, 25 * i))
                   ELSE goal.current_amount >= goal.target_amount
               open == {i \in 1..4 : ~reached(i)}
           IN  /\ Len(resp.data.milestones) = 4
               /\ \A i \in 1..4 :
                     /\ resp.data.milestones[i].percentage = 25 * i
                     /\ resp.data.milestones[i].achieved = reached(i)
                     /\ resp.data.milestones[i].achieved
                           => \A j \in 1..i : resp.data.milestones[j].achieved
               /\ resp.data.next_milestone =
                     (IF open = {} THEN 0
                      ELSE 25 * (CHOOSE i \in open : \A j \in open : i <= j))
               /\ (resp.data.next_milestone = 0)
                     = (goal.current_amount >= goal.target_amount)

(***************************************************************************)
(* Properties of names                                                      *)
(***************************************************************************)
\* the name a table compares: tags lower-cased, goals trimmed, categories as given
Normal(kind, name) ==
    CASE kind = "tag" -> ToLowerCase(name)
      [] kind = "goal" -> Trim(name)
      [] OTHER -> name

NamedTable(kind) ==
    CASE kind = "tag" -> tags
      [] kind = "goal" -> goals
      [] OTHER -> categories

NamesUnique ==
    \A kind \in {"category", "tag", "goal"} :
        \A i, j \in LiveIds(NamedTable(kind)) :
            (/\ i # j
             /\ NamedTable(kind)[i].user_id = NamedTable(kind)[j].user_id)
                => Normal(kind, NamedTable(kind)[i].name)
                       # Normal(kind, NamedTable(kind)[j].name)

\* a create for an existing owner, or a rename of a row the caller can reach, whose
\* name another row of that owner already carries
Duplicates(kind, op, caller, id, body) ==
    LET table == NamedTable(kind)
        owner == IF op = "Create"
                 THEN IF users[caller].type = ADMIN /\ GivenNum(body, "target_user_id")
                      THEN body.target_user_id ELSE caller
                 ELSE table[id].user_id
    IN  /\ GivenStr(body, "name")
        /\ op = "Update"
              => /\ Live(table, id)
                 /\ users[caller].type = ADMIN \/ table[id].user_id = caller
        /\ \E k \in LiveIds(table) \ (IF op = "Update" THEN {id} ELSE {}) :
              /\ table[k].user_id = owner
              /\ Normal(kind, table[k].name) = Normal(kind, body.name)

DuplicateRefused ==
    \A kind \in {"category", "tag", "goal"}, op \in {"Create", "Update"} :
        (/\ resp'.op = kind \o op
         /\ Duplicates(kind, op, resp'.caller, resp'.target, resp'.req))
            => /\ resp'.status = 400
               /\ UNCHANGED <<categories, tags, goals>>

\* C25: after any sequence of create and update requests by regular and admin
\* callers no two categories of one owner share a name, no two tags of one owner
\* share a lower-cased name and no two goals of one owner share a trimmed name,
\* and a create or rename that would make a duplicate is answered 400 and
\* changes nothing
C25_NamesStayUnique == []NamesUnique /\ [][DuplicateRefused]_vars

\* C25: an owner holds two tags and the rename of one to the other's name, in
\* another case, has just been refused
C25_Witness ==
    /\ resp.op = "tagUpdate"
    /\ resp.status = 400
    /\ resp.req.name # ToLowerCase(resp.req.name)
    /\ \E i, j \in LiveIds(tags) : i # j /\ tags[i].user_id = tags[j].user_id

(***************************************************************************)
(* Properties of a transaction's category                                   *)
(***************************************************************************)
\* C26: the category_id of every stored transaction names an existing category
\* whose user_id is the transaction's user_id, whoever created or updated it
C26_CategoryOfOwner ==
    \A t \in LiveIds(transactions) :
        /\ Live(categories, transactions[t].category_id)
        /\ categories[transactions[t].category_id].user_id = transactions[t].user_id

(***************************************************************************)
(* Properties of the entries per request                                    *)
(***************************************************************************)
\* the entries a step's answer makes the middleware write
Audited == {i \in Added : logs'[i].via # "create"}

\* C27: a request the middleware does not skip writes exactly one entry when it
\* is answered, by res.json, by res.send (an empty 204 included) or by res.end,
\* so no answer makes the middleware write two or more entries
C27_OneEntryPerAnswer == [][Cardinality(Audited) <= 1]_vars

(***************************************************************************)
(* Properties of overlapping addProgress requests                           *)
(***************************************************************************)
\* C28: two overlapping addProgress requests on one active goal are not
\* serialized: each writes the amount it read plus its own amount whatever the
\* row holds by then, and a request that passed its checks is answered 200,
\* never rejected because of the other
C28_LastWriteWins ==
    [][\A k \in DOMAIN inflight :
          /\ (inflight[k].pc = "update" /\ inflight'[k].pc # "update")
                => /\ inflight'[k].pc = "reload"
                   /\ goals'[inflight[k].target].current_amount =
                         inflight[k].goal.current_amount + inflight[k].amount
          /\ inflight'[k].pc = "done" => inflight'[k].status = 200]_vars

\* C28: both requests read the same amount, both are answered 200, and the goal
\* holds that amount plus the amount of one of them only
C28_Witness ==
    \E j, k \in DOMAIN inflight :
        /\ j # k
        /\ inflight[j].target = inflight[k].target
        /\ inflight[j].goal.current_amount = inflight[k].goal.current_amount
        /\ inflight[j].pc = "done" /\ inflight[j].status = 200
        /\ inflight[k].pc = "done" /\ inflight[k].status = 200
        /\ inflight[j].amount > 0
        /\ goals[inflight[k].target].current_amount =
              inflight[k].goal.current_amount + inflight[k].amount

(***************************************************************************)
(* Properties of requests without an admin's token                          *)
(***************************************************************************)
\* C30: no request made without an admin's token creates a user whose type is
\* admin, and none changes the type or the active flag of an existing user
C30_NoEscalation ==
    [][\A u \in DOMAIN users' :
          IF u \in DOMAIN users /\ users[u].st # "unused"
          THEN users'[u].type = users[u].type /\ users'[u].active = users[u].active
          ELSE users'[u].st = "live" => users'[u].type # ADMIN]_vars

====
